---- MODULE Spec2Model ----
(***************************************************************************)
(* Model of the warehouse loaders (src/src/fuel_price/load.py and          *)
(* src/src/fuel_price/load_redshift.py) and of the Airflow DAG that        *)
(* sequences extract, transform and the two loads                          *)
(* (src/dags/fuel_price_dag.py).                                           *)
(*                                                                         *)
(* A table is a multiset of rows; a row is a pair <<key, value>> standing  *)
(* for the natural-key columns and the value columns of the table.  The    *)
(* load timestamp and the engine-generated identity column are not part of *)
(* a row.  Every statement sent to a warehouse may fail.                   *)
(*                                                                         *)
(* The cleaners and aggregators of src/src/fuel_price/transform.py are     *)
(* operators on DataFrames: a DataFrame is its column names, its rows in   *)
(* order and the index label of each row.  Dates are the numbers yyyymmdd, *)
(* prices are hundredths, means are exact fractions.                       *)
(***************************************************************************)
EXTENDS Integers, Sequences, FiniteSets, TLC

\* ------------------------------------------------------------------ bounds
MaxKey == 2
MaxVal == 2
MaxLen == 2
MaxRows == 3

Keys == 1..MaxKey
Vals == 1..MaxVal
Rows == Keys \X Vals

\* the rows of a DataFrame, in order
RowSeqs == UNION {[1..n -> Rows] : n \in 0..MaxLen}

\* ------------------------------------------------------------------ tables
PostgresTables ==
  {"staging.brent_prices", "staging.fuel_prices", "staging.usd_ars_rates",
   "analytics.brent_prices_monthly", "analytics.fuel_prices_monthly",
   "analytics.usd_ars_rates_monthly"}

RedshiftTables ==
  {"staging_brent_price", "staging_fuel_prices", "staging_usd_ars_rates",
   "analytics_brent_prices_monthly", "analytics_fuel_prices_monthly",
   "analytics_usd_ars_rates_monthly"}

Tables == PostgresTables \cup RedshiftTables

\* required_cols of each load_* function of load.py
required_cols(t) ==
  CASE t = "staging.brent_prices" -> {"date", "brent_price"}
    [] t = "staging.fuel_prices" ->
         {"periodo", "provincia", "bandera", "producto", "precio_surtidor",
          "volumen"}
    [] t = "staging.usd_ars_rates" -> {"date", "usd_ars_oficial", "usd_ars_blue"}
    [] t = "analytics.brent_prices_monthly" ->
         {"year", "month", "avg_brent_price_usd", "min_brent_price_usd",
          "max_brent_price_usd", "record_count"}
    [] t = "analytics.fuel_prices_monthly" ->
         {"year", "month", "provincia", "bandera", "producto",
          "precio_surtidor_mediana", "volumen_total"}
    [] t = "analytics.usd_ars_rates_monthly" ->
         {"year", "month", "avg_usd_ars_oficial", "avg_usd_ars_blue",
          "avg_brecha_cambiaria_pct", "record_count"}
    [] OTHER -> {}

\* the optional column of load_usd_ars_to_staging
optional_cols(t) ==
  IF t = "staging.usd_ars_rates" THEN {"brecha_cambiaria_pct"} ELSE {}

\* valid_columns of load_to_redshift
valid_columns(t) ==
  CASE t = "staging_brent_price" -> {"date", "brent_price"}
    [] t = "staging_fuel_prices" ->
         {"periodo", "operador", "nro_inscripcion", "bandera", "fecha_de_baja",
          "cuit", "tipo_negocio", "direccion", "localidad", "provincia",
          "producto", "canal_de_comercializacion", "precio_sin_impuestos",
          "precio_con_impuestos", "volumen", "precio_surtidor",
          "no_movimientos", "excentos", "impuesto_combustible_liquido",
          "impuesto_dioxido_carbono", "tasa_vial", "tasa_municipal",
          "ingresos_brutos", "iva", "fondo_fiduciario_gnc",
          "impuesto_combustible_liquidos", "market_share_pct"}
    [] t = "staging_usd_ars_rates" -> {"date", "source", "value_buy", "value_sell"}
    [] t = "analytics_brent_prices_monthly" -> {"date", "avg_brent_price"}
    [] t = "analytics_fuel_prices_monthly" ->
         {"periodo", "producto", "precio_surtidor_mediana", "volumen_total"}
    [] t = "analytics_usd_ars_rates_monthly" ->
         {"date", "usd_ars_oficial", "usd_ars_blue", "brecha_cambiaria_pct"}
    [] OTHER -> {}

\* the NOT NULL columns of the Redshift DDL (create_staging_tables,
\* create_analytics_tables)
not_null_cols(t) ==
  CASE t = "staging_brent_price" -> {"date", "brent_price"}
    [] t = "staging_fuel_prices" -> {"periodo", "producto", "precio_surtidor"}
    [] t = "staging_usd_ars_rates" -> {"date", "source"}
    [] t = "analytics_brent_prices_monthly" -> {"date", "avg_brent_price"}
    [] t = "analytics_fuel_prices_monthly" ->
         {"periodo", "producto", "precio_surtidor_mediana"}
    [] t = "analytics_usd_ars_rates_monthly" ->
         {"date", "usd_ars_oficial", "usd_ars_blue"}
    [] OTHER -> {}

\* the tables whose primary key is the engine-generated identity column
\* (every other table's primary key is its natural key)
IdentityKeyTables == {"staging.fuel_prices", "staging_fuel_prices"}

\* the columns a destination table requires of an artifact
RequiredCols(t) ==
  IF t \in PostgresTables THEN required_cols(t) ELSE not_null_cols(t)

AllCols(t) ==
  IF t \in PostgresTables THEN required_cols(t) \cup optional_cols(t)
  ELSE valid_columns(t)

\* one nullable column of each Redshift table that has one
NullableCol(t) ==
  CASE t = "staging_fuel_prices" -> {"volumen"}
    [] t = "staging_usd_ars_rates" -> {"value_buy"}
    [] t = "analytics_fuel_prices_monthly" -> {"volumen_total"}
    [] t = "analytics_usd_ars_rates_monthly" -> {"brecha_cambiaria_pct"}
    [] OTHER -> {}

\* the column sets of the DataFrames handed to the load of table t: every
\* column, or every column but one
DfColumnSets(t) ==
  {AllCols(t)} \cup
  {AllCols(t) \ {c} : c \in RequiredCols(t) \cup optional_cols(t) \cup NullableCol(t)}

\* ------------------------------------------------------------ row multisets
EmptyRows == [r \in Rows |-> 0]

BagOfSeq(s) == [r \in Rows |-> Cardinality({i \in DOMAIN s : s[i] = r})]

Size(b) ==
  LET RECURSIVE Sum(_)
      Sum(S) == IF S = {} THEN 0
                ELSE LET r == CHOOSE x \in S : TRUE IN b[r] + Sum(S \ {r})
  IN Sum(Rows)

KeysOfSeq(s) == {s[i][1] : i \in DOMAIN s}

DistinctKeys(s) == \A i, j \in DOMAIN s : s[i][1] = s[j][1] => i = j

\* INSERT ... VALUES without a conflict clause, and COPY: the rows are added
AppendRows(b, s) == [r \in Rows |-> b[r] + BagOfSeq(s)[r]]

\* INSERT ... ON CONFLICT (key) DO UPDATE SET value = EXCLUDED.value
UpsertRows(b, s) ==
  [r \in Rows |->
     IF r[1] \in KeysOfSeq(s)
     THEN IF \E i \in DOMAIN s : s[i] = r THEN 1 ELSE 0
     ELSE b[r]]

\* a TRUNCATE that removes nothing
TruncateRowsKeeps(b) == b

\* TRUNCATE TABLE
TruncateRows(b) == EmptyRows

\* ------------------------------------------------------------------- tasks
\* the tasks of the DAG fuel_price_etl
Tasks == {"extract", "transform", "load_postgres", "load_redshift"}

\* ---------------------------------------------------------------- variables
VARIABLES
  committed,      \* [Tables -> [exists, rows]]: what every session sees
  txn,            \* the same, as seen inside the open transaction
  target,         \* the table of the current load unit
  df,             \* the DataFrame of the current call: [columns, rows]
  truncate,       \* the truncate argument of the current call
  caller,         \* the function that runs: which body the connection serves
  pc,             \* position inside the running function
  outcome,        \* "none" while running, then "ok", "false" or "raised"
  failedAt,       \* the step whose failure raised, "none" otherwise
  connOpen,       \* a connection of the running function is open
  nOpened,        \* connections opened by the running function
  nClosed,        \* connections closed by the running function
  rollbackIssued, \* conn.rollback() was called by the running function
  issued,         \* statements executed by the running function
  insertedCols,   \* the columns named by the INSERT / COPY of the function
  before,         \* committed[target] when the function was called
  repeat,         \* the call repeats the previous, successful, call
  taskState,      \* the state of each task of the DAG run
  tries,          \* the attempts each task has started
  rsStep,         \* load_redshift: the call of its body that comes next
  pgStep,         \* load_postgres: the statement of its body that comes next
  processed,      \* the parquet files of data/processed exist
  raw,            \* the raw DataFrame handed to a cleaner
  clean,          \* the clean artifact the cleaner returned
  aggregated,     \* the artifact the aggregator returned
  df_to_load,     \* the rows load_to_redshift selects from the artifact
  error,          \* the exception the transform function raised
  allFn,          \* the running load_all_data / load_all_data_to_redshift call
  allStep,        \* the call of its body that comes next
  called,         \* the calls its body has made, with their results
  allOutcome      \* "none" while it runs, then "ok" or the exception raised

dbVars == <<committed, txn>>
callVars == <<target, df, truncate, caller, before, repeat>>
connVars == <<connOpen, nOpened, nClosed>>
traceVars == <<rollbackIssued, issued, insertedCols>>
vars == <<committed, txn, target, df, truncate, caller, pc, outcome, failedAt,
          connOpen, nOpened, nClosed, rollbackIssued, issued, insertedCols,
          before, repeat, taskState, tries, rsStep, pgStep, processed,
          raw, clean, aggregated, df_to_load, error,
          allFn, allStep, called, allOutcome>>
dagVars == <<taskState, tries, rsStep, pgStep, processed>>
transformVars == <<raw, clean, aggregated, df_to_load, error>>
allVars == <<allFn, allStep, called, allOutcome>>

TableState == [exists : BOOLEAN, rows : [Rows -> 0..(MaxRows + MaxLen)]]

EmptyDb == [t \in Tables |-> [exists |-> TRUE, rows |-> EmptyRows]]

NoDf == [columns |-> {}, rows |-> << >>]

\* a DataFrame of the transform functions: its column names, its rows in
\* order and the index label of each row
NoFrame == [columns |-> {}, rows |-> << >>, index |-> << >>]

\* neither load_all_data nor load_all_data_to_redshift runs
NoCall ==
  [fn |-> "none", load_to_analytics |-> FALSE, brent_df |-> NoDf, fuel_df |-> NoDf,
   usd_ars_df |-> NoDf]

\* no exception
NoError == [type |-> "none", at |-> "none", missing |-> {}, after |-> << >>]

\* the load function of load.py for each PostgreSQL table
LoadFunction(t) ==
  CASE t = "staging.brent_prices" -> "load_brent_to_staging"
    [] t = "staging.fuel_prices" -> "load_fuel_to_staging"
    [] t = "staging.usd_ars_rates" -> "load_usd_ars_to_staging"
    [] t = "analytics.brent_prices_monthly" -> "load_brent_to_analytics"
    [] t = "analytics.fuel_prices_monthly" -> "load_fuel_to_analytics"
    [] t = "analytics.usd_ars_rates_monthly" -> "load_usd_ars_to_analytics"
    [] OTHER -> "load_to_redshift"

LoadFunctions == {LoadFunction(t) : t \in Tables}

\* the state of a function that has just been called
Called(fn, t, d, tr, first) ==
  /\ caller' = fn
  /\ target' = t
  /\ df' = d
  /\ truncate' = tr
  /\ pc' = first
  /\ outcome' = "none"
  /\ failedAt' = "none"
  /\ connOpen' = FALSE
  /\ nOpened' = 0
  /\ nClosed' = 0
  /\ rollbackIssued' = FALSE
  /\ issued' = {}
  /\ insertedCols' = {}
  /\ before' = committed[t]

\* the function raises at step s (or, for the connection tests, which catch
\* every exception, returns False)
Raises(s) ==
  /\ outcome' = IF caller \in {"test_connection", "test_redshift_connection"}
                THEN "false" ELSE "raised"
  /\ failedAt' = s

SetRows(db, t, b) == [db EXCEPT ![t] = [exists |-> TRUE, rows |-> b]]

\* ------------------------------------------------------------------ load.py

\* if not all(col in df.columns for col in required_cols): raise ValueError
ValidateColumns ==
  /\ pc = "validate"
  /\ IF required_cols(target) \subseteq df.columns
     THEN pc' = "connect" /\ UNCHANGED <<outcome, failedAt>>
     ELSE pc' = "done" /\ outcome' = "raised" /\ failedAt' = "validate"
  /\ UNCHANGED <<dbVars, callVars, connVars, traceVars>>
  /\ UNCHANGED <<dagVars, transformVars, allVars>>

\* psycopg2.connect(**connection_params): a psycopg2.Error is re-raised
get_postgres_connection ==
  /\ pc = "connect"
  /\ \/ /\ connOpen' = TRUE
        /\ nOpened' = nOpened + 1
        /\ txn' = committed
        /\ pc' = IF caller = "test_connection" THEN "tc_cursor" ELSE "cursor"
        /\ UNCHANGED <<outcome, failedAt, nClosed>>
     \/ /\ pc' = "done"
        /\ Raises("connect")
        /\ UNCHANGED <<txn, connVars>>
  /\ UNCHANGED <<committed, callVars, traceVars>>
  /\ UNCHANGED <<dagVars, transformVars, allVars>>

\* cursor = conn.cursor(), before the try statement of the load function: an
\* exception leaves the function with the connection open
LoadCursor ==
  /\ pc = "cursor"
  /\ \/ pc' = "truncate" /\ UNCHANGED <<outcome, failedAt>>
     \/ pc' = "done" /\ Raises("cursor")
  /\ UNCHANGED <<dbVars, callVars, connVars, traceVars>>
  /\ UNCHANGED <<dagVars, transformVars, allVars>>

\* if truncate: cursor.execute("TRUNCATE TABLE ... RESTART IDENTITY CASCADE;")
LoadTruncate ==
  /\ pc = "truncate"
  /\ IF truncate
     THEN /\ issued' = issued \cup {"truncate"}
          /\ \/ /\ txn' = SetRows(txn, target, TruncateRows(txn[target].rows))
                /\ pc' = "insert"
                /\ UNCHANGED <<outcome, failedAt>>
             \/ /\ pc' = "except"
                /\ Raises("truncate")
                /\ UNCHANGED txn
     ELSE /\ pc' = "insert"
          /\ UNCHANGED <<txn, issued, outcome, failedAt>>
  /\ UNCHANGED <<committed, callVars, connVars, rollbackIssued, insertedCols>>
  /\ UNCHANGED <<dagVars, transformVars, allVars>>

\* the columns the load function selects from df: required_cols, and for
\* load_usd_ars_to_staging brecha_cambiaria_pct when df has it
cols_to_use(t, d) == required_cols(t) \cup (optional_cols(t) \cap d.columns)

\* the rows of the table after the insert of the load function: COPY for
\* load_fuel_to_staging, INSERT ... ON CONFLICT DO UPDATE for the others
InsertedRows(t, b, s) ==
  IF t = "staging.fuel_prices" THEN AppendRows(b, s) ELSE UpsertRows(b, s)

\* an INSERT ... ON CONFLICT DO UPDATE cannot update one row twice: it
\* succeeds only when the keys of its rows are distinct; COPY has no such limit
InsertCanSucceed(t, s) == t = "staging.fuel_prices" \/ DistinctKeys(s)

\* execute_values(cursor, insert_query, records_list) / cursor.copy_expert
LoadInsert ==
  /\ pc = "insert"
  /\ issued' = issued \cup {"insert"}
  /\ insertedCols' = cols_to_use(target, df)
  /\ \/ /\ InsertCanSucceed(target, df.rows)
        /\ txn' = SetRows(txn, target, InsertedRows(target, txn[target].rows, df.rows))
        /\ pc' = "commit"
        /\ UNCHANGED <<outcome, failedAt>>
     \/ /\ pc' = "except"
        /\ Raises("insert")
        /\ UNCHANGED txn
  /\ UNCHANGED <<committed, callVars, connVars, rollbackIssued>>
  /\ UNCHANGED <<dagVars, transformVars, allVars>>

\* conn.commit(); return rows_inserted
LoadCommit ==
  /\ pc = "commit"
  /\ \/ /\ committed' = txn
        /\ pc' = "finally"
        /\ outcome' = "ok"
        /\ UNCHANGED failedAt
     \/ /\ pc' = "except"
        /\ Raises("commit")
        /\ UNCHANGED committed
  /\ UNCHANGED <<txn, callVars, connVars, traceVars>>
  /\ UNCHANGED <<dagVars, transformVars, allVars>>

\* a handler that commits what the unit has done so far
LoadExceptCommits ==
  /\ pc = "except"
  /\ rollbackIssued' = TRUE
  /\ committed' = txn
  /\ pc' = "finally"
  /\ UNCHANGED <<txn, callVars, connVars, outcome, failedAt, issued,
                 insertedCols>>
  /\ UNCHANGED <<dagVars, transformVars, allVars>>

\* except Exception: conn.rollback(); raise  (a failing rollback raises too)
LoadExcept ==
  /\ pc = "except"
  /\ rollbackIssued' = TRUE
  /\ \/ txn' = committed
     \/ UNCHANGED txn
  /\ pc' = "finally"
  /\ UNCHANGED <<committed, callVars, connVars, outcome, failedAt, issued,
                 insertedCols>>
  /\ UNCHANGED <<dagVars, transformVars, allVars>>

\* finally: cursor.close(); conn.close()  (closing discards what is uncommitted)
LoadFinally ==
  /\ pc = "finally"
  /\ connOpen' = FALSE
  /\ nClosed' = nClosed + 1
  /\ txn' = committed
  /\ pc' = "done"
  /\ UNCHANGED <<committed, callVars, nOpened, outcome, failedAt, traceVars>>
  /\ UNCHANGED <<dagVars, transformVars, allVars>>

\* test_connection: cursor = conn.cursor(); inside try, caught by the handler
\* that returns False and closes nothing
TestCursor ==
  /\ pc = "tc_cursor"
  /\ \/ pc' = "tc_execute" /\ UNCHANGED <<outcome, failedAt>>
     \/ pc' = "done" /\ Raises("cursor")
  /\ UNCHANGED <<dbVars, callVars, connVars, traceVars>>
  /\ UNCHANGED <<dagVars, transformVars, allVars>>

\* test_connection: cursor.execute("SELECT version();"); cursor.fetchone()
TestExecute ==
  /\ pc = "tc_execute"
  /\ issued' = issued \cup {"select"}
  /\ \/ pc' = "tc_close" /\ UNCHANGED <<outcome, failedAt>>
     \/ pc' = "done" /\ Raises("select")
  /\ UNCHANGED <<dbVars, callVars, connVars, rollbackIssued, insertedCols>>
  /\ UNCHANGED <<dagVars, transformVars, allVars>>

\* test_connection: cursor.close(); conn.close(); return True
TestClose ==
  /\ pc = "tc_close"
  /\ connOpen' = FALSE
  /\ nClosed' = nClosed + 1
  /\ txn' = committed
  /\ pc' = "done"
  /\ outcome' = "ok"
  /\ UNCHANGED <<committed, callVars, nOpened, failedAt, traceVars>>
  /\ UNCHANGED <<dagVars, transformVars, allVars>>

\* --------------------------------------------------------- load_redshift.py

\* the first statement of the with-body of each user of get_redshift_connection
BodyStart(fn) ==
  CASE fn = "load_to_redshift" -> "rs_truncate"
    [] fn = "test_redshift_connection" -> "rs_select"
    [] fn = "verify_schema_exists" -> "rs_verify"
    [] OTHER -> "rs_drop"

\* load_to_redshift: if df.empty: return 0
LoadEmptyCheck ==
  /\ pc = "rs_empty"
  /\ IF df.rows = << >>
     THEN pc' = "done" /\ outcome' = "ok"
     ELSE pc' = "rs_connect" /\ UNCHANGED outcome
  /\ UNCHANGED <<dbVars, callVars, connVars, traceVars, failedAt>>
  /\ UNCHANGED <<dagVars, transformVars, allVars>>

\* get_redshift_connection: conn = psycopg2.connect(conn_str).  On a failure
\* (no connection string, or connect raises) conn is None: the handler
\* re-raises without rollback and the finally clause closes nothing.
RedshiftConnect ==
  /\ pc = "rs_connect"
  /\ \/ /\ connOpen' = TRUE
        /\ nOpened' = nOpened + 1
        /\ txn' = committed
        /\ pc' = "rs_cursor"
        /\ UNCHANGED <<outcome, failedAt, nClosed>>
     \/ /\ pc' = "done"
        /\ Raises("connect")
        /\ UNCHANGED <<txn, connVars>>
  /\ UNCHANGED <<committed, callVars, traceVars>>
  /\ UNCHANGED <<dagVars, transformVars, allVars>>

\* get_redshift_connection: cursor = conn.cursor(); yield conn, cursor
RedshiftCursor ==
  /\ pc = "rs_cursor"
  /\ \/ pc' = BodyStart(caller) /\ UNCHANGED <<outcome, failedAt>>
     \/ pc' = "rs_except" /\ Raises("cursor")
  /\ UNCHANGED <<dbVars, callVars, connVars, traceVars>>
  /\ UNCHANGED <<dagVars, transformVars, allVars>>

\* load_to_redshift: if truncate: cursor.execute(f"TRUNCATE TABLE {full_table_name};")
RedshiftTruncate ==
  /\ pc = "rs_truncate"
  /\ IF truncate
     THEN /\ issued' = issued \cup {"truncate"}
          /\ \/ /\ txn[target].exists
                /\ txn' = SetRows(txn, target, TruncateRows(txn[target].rows))
                /\ pc' = "rs_insert"
                /\ UNCHANGED <<outcome, failedAt>>
             \/ /\ pc' = "rs_except"
                /\ Raises("truncate")
                /\ UNCHANGED txn
     ELSE /\ pc' = "rs_insert"
          /\ UNCHANGED <<txn, issued, outcome, failedAt>>
  /\ UNCHANGED <<committed, callVars, connVars, rollbackIssued, insertedCols>>
  /\ UNCHANGED <<dagVars, transformVars, allVars>>

\* load_to_redshift: available_cols = [col for col in valid_columns[table_key]
\* if col in df_copy.columns]
available_cols(t, d) == valid_columns(t) \cap d.columns

\* load_to_redshift: INSERT INTO {full_table_name} ({cols_str}) VALUES %s.
\* The statement has no conflict clause: when it succeeds its rows are added.
\* It cannot succeed on a table that does not exist or without a value for a
\* NOT NULL column.
RedshiftInsert ==
  /\ pc = "rs_insert"
  /\ issued' = issued \cup {"insert"}
  /\ insertedCols' = available_cols(target, df)
  /\ \/ /\ txn[target].exists
        /\ not_null_cols(target) \subseteq available_cols(target, df)
        /\ txn' = SetRows(txn, target, AppendRows(txn[target].rows, df.rows))
        /\ pc' = "rs_commit"
        /\ UNCHANGED <<outcome, failedAt>>
     \/ /\ pc' = "rs_except"
        /\ Raises("insert")
        /\ UNCHANGED txn
  /\ UNCHANGED <<committed, callVars, connVars, rollbackIssued>>
  /\ UNCHANGED <<dagVars, transformVars, allVars>>

\* test_redshift_connection: cursor.execute("SELECT version();")
RedshiftSelect ==
  /\ pc = "rs_select"
  /\ issued' = issued \cup {"select"}
  /\ \/ pc' = "rs_commit" /\ UNCHANGED <<outcome, failedAt>>
     \/ pc' = "rs_except" /\ Raises("select")
  /\ UNCHANGED <<dbVars, callVars, connVars, rollbackIssued, insertedCols>>
  /\ UNCHANGED <<dagVars, transformVars, allVars>>

\* verify_schema_exists: SELECT nspname FROM pg_namespace ...; no row raises
\* ValueError
RedshiftVerify ==
  /\ pc = "rs_verify"
  /\ issued' = issued \cup {"select"}
  /\ \/ pc' = "rs_commit" /\ UNCHANGED <<outcome, failedAt>>
     \/ pc' = "rs_except" /\ Raises("select")
  /\ UNCHANGED <<dbVars, callVars, connVars, rollbackIssued, insertedCols>>
  /\ UNCHANGED <<dagVars, transformVars, allVars>>

StagingTables ==
  {"staging_brent_price", "staging_fuel_prices", "staging_usd_ars_rates"}

AnalyticsTables == RedshiftTables \ StagingTables

\* the tables create_staging_tables / create_analytics_tables drops and creates
CreatedBy(fn) ==
  IF fn = "create_staging_tables" THEN StagingTables ELSE AnalyticsTables

Dropped == [exists |-> FALSE, rows |-> EmptyRows]

Created == [exists |-> TRUE, rows |-> EmptyRows]

\* create_*_tables: the three DROP TABLE IF EXISTS ... CASCADE statements
RedshiftDrop ==
  /\ pc = "rs_drop"
  /\ issued' = issued \cup {"drop"}
  /\ \/ /\ txn' = [t \in Tables |-> IF t \in CreatedBy(caller) THEN Dropped ELSE txn[t]]
        /\ pc' = "rs_commit_drops"
        /\ UNCHANGED <<outcome, failedAt>>
     \/ /\ pc' = "rs_except"
        /\ Raises("drop")
        /\ UNCHANGED txn
  /\ UNCHANGED <<committed, callVars, connVars, rollbackIssued, insertedCols>>
  /\ UNCHANGED <<dagVars, transformVars, allVars>>

\* create_*_tables: the explicit conn.commit() after the drops
RedshiftCommitDrops ==
  /\ pc = "rs_commit_drops"
  /\ \/ /\ committed' = txn
        /\ pc' = "rs_create"
        /\ UNCHANGED <<outcome, failedAt>>
     \/ /\ pc' = "rs_except"
        /\ Raises("commit")
        /\ UNCHANGED committed
  /\ UNCHANGED <<txn, callVars, connVars, traceVars>>
  /\ UNCHANGED <<dagVars, transformVars, allVars>>

\* create_*_tables: the three CREATE TABLE statements
RedshiftCreate ==
  /\ pc = "rs_create"
  /\ issued' = issued \cup {"create"}
  /\ \/ /\ txn' = [t \in Tables |-> IF t \in CreatedBy(caller) THEN Created ELSE txn[t]]
        /\ pc' = "rs_commit"
        /\ UNCHANGED <<outcome, failedAt>>
     \/ /\ pc' = "rs_except"
        /\ Raises("create")
        /\ UNCHANGED txn
  /\ UNCHANGED <<committed, callVars, connVars, rollbackIssued, insertedCols>>
  /\ UNCHANGED <<dagVars, transformVars, allVars>>

\* get_redshift_connection, after the body: conn.commit()
RedshiftCommit ==
  /\ pc = "rs_commit"
  /\ \/ /\ committed' = txn
        /\ pc' = "rs_finally"
        /\ outcome' = "ok"
        /\ UNCHANGED failedAt
     \/ /\ pc' = "rs_except"
        /\ Raises("commit")
        /\ UNCHANGED committed
  /\ UNCHANGED <<txn, callVars, connVars, traceVars>>
  /\ UNCHANGED <<dagVars, transformVars, allVars>>

\* get_redshift_connection: except Exception: if conn: conn.rollback(); raise
RedshiftExcept ==
  /\ pc = "rs_except"
  /\ rollbackIssued' = TRUE
  /\ \/ txn' = committed
     \/ UNCHANGED txn
  /\ pc' = "rs_finally"
  /\ UNCHANGED <<committed, callVars, connVars, outcome, failedAt, issued,
                 insertedCols>>
  /\ UNCHANGED <<dagVars, transformVars, allVars>>

\* get_redshift_connection: finally: cursor.close(); conn.close()
RedshiftFinally ==
  /\ pc = "rs_finally"
  /\ connOpen' = FALSE
  /\ nClosed' = nClosed + 1
  /\ txn' = committed
  /\ pc' = "done"
  /\ UNCHANGED <<committed, callVars, nOpened, outcome, failedAt, traceVars>>
  /\ UNCHANGED <<dagVars, transformVars, allVars>>

\* ------------------------------------------------- the loaders, called alone

\* first step of the load function of table t
FirstStep(t) == IF t \in PostgresTables THEN "validate" ELSE "rs_empty"

\* a load function is called with a DataFrame and a truncate flag
CallLoad ==
  /\ pc = "idle"
  /\ \E cols \in DfColumnSets(target), rows \in RowSeqs, tr \in BOOLEAN :
       /\ (IF tr THEN 0 ELSE Size(committed[target].rows)) + Len(rows) <= MaxRows
       /\ Called(LoadFunction(target), target,
                 [columns |-> cols, rows |-> rows], tr, FirstStep(target))
  /\ repeat' = FALSE
  /\ UNCHANGED dbVars
  /\ UNCHANGED <<dagVars, transformVars, allVars>>

\* the load function that has just succeeded is called again with the same
\* DataFrame and the same truncate flag
CallLoadAgain ==
  /\ pc = "done"
  /\ outcome = "ok"
  /\ caller \in LoadFunctions
  /\ (IF truncate THEN 0 ELSE Size(committed[target].rows)) + Len(df.rows) <= MaxRows
  /\ Called(caller, target, df, truncate, FirstStep(target))
  /\ repeat' = TRUE
  /\ UNCHANGED dbVars
  /\ UNCHANGED <<dagVars, transformVars, allVars>>

\* test_connection / test_redshift_connection is called
CallTest ==
  /\ pc = "idle"
  /\ repeat' = FALSE
  /\ IF target \in PostgresTables
     THEN Called("test_connection", target, NoDf, FALSE, "connect")
     ELSE Called("test_redshift_connection", target, NoDf, FALSE, "rs_connect")
  /\ UNCHANGED dbVars
  /\ UNCHANGED <<dagVars, transformVars, allVars>>

\* the caller has the result (or the exception) of the function
Return ==
  /\ pc = "done"
  /\ Called("none", target, NoDf, FALSE, "idle")
  /\ repeat' = FALSE
  /\ UNCHANGED dbVars
  /\ UNCHANGED <<dagVars, transformVars, allVars>>

LoadPyStep ==
  \/ ValidateColumns \/ get_postgres_connection \/ LoadCursor \/ LoadTruncate
  \/ LoadInsert \/ LoadCommit \/ LoadExcept \/ LoadFinally
  \/ TestCursor \/ TestExecute \/ TestClose

LoadRedshiftStep ==
  \/ LoadEmptyCheck \/ RedshiftConnect \/ RedshiftCursor \/ RedshiftTruncate
  \/ RedshiftInsert \/ RedshiftSelect \/ RedshiftCommit \/ RedshiftExcept
  \/ RedshiftFinally

InitLoad ==
  /\ committed = EmptyDb
  /\ txn = EmptyDb
  /\ target \in Tables
  /\ df = NoDf
  /\ truncate = FALSE
  /\ caller = "none"
  /\ pc = "idle"
  /\ outcome = "none"
  /\ failedAt = "none"
  /\ connOpen = FALSE
  /\ nOpened = 0
  /\ nClosed = 0
  /\ rollbackIssued = FALSE
  /\ issued = {}
  /\ insertedCols = {}
  /\ before = EmptyDb[target]
  /\ repeat = FALSE
  /\ taskState = [t \in Tasks |-> "none"]
  /\ tries = [t \in Tasks |-> 0]
  /\ rsStep = 0
  /\ pgStep = 0
  /\ processed = TRUE
  /\ raw = NoFrame
  /\ clean = NoFrame
  /\ aggregated = NoFrame
  /\ df_to_load = NoFrame
  /\ error = NoError
  /\ allFn = NoCall
  /\ allStep = 0
  /\ called = << >>
  /\ allOutcome = "none"

NextLoad ==
  CallLoad \/ CallLoadAgain \/ CallTest \/ Return \/ LoadPyStep \/ LoadRedshiftStep

SpecLoad == InitLoad /\ [][NextLoad]_vars

\* ------------------------------------------------------- fuel_price_dag.py

\* default_args["retries"]
retries == 1

\* the loads chained: ... >> load_postgres_task >> load_redshift_task
UpstreamChained(t) ==
  CASE t = "extract" -> {}
    [] t = "transform" -> {"extract"}
    [] t = "load_postgres" -> {"transform"}
    [] OTHER -> {"load_postgres"}

\* transform left without its upstream task
UpstreamNoExtract(t) ==
  CASE t = "extract" -> {}
    [] t = "transform" -> {}
    [] OTHER -> {"transform"}

\* extract_task >> transform_task >> [load_postgres_task, load_redshift_task]
Upstream(t) ==
  CASE t = "extract" -> {}
    [] t = "transform" -> {"extract"}
    [] OTHER -> {"transform"}

\* a task instance starts (again) when every upstream task has succeeded
\* (the default trigger rule)
Runnable(t) ==
  /\ taskState[t] \in {"none", "up_for_retry"}
  /\ \A u \in Upstream(t) : taskState[u] = "success"

StartTask(t) ==
  /\ Runnable(t)
  /\ taskState' = [taskState EXCEPT ![t] = "running"]
  /\ tries' = [tries EXCEPT ![t] = @ + 1]
  /\ rsStep' = IF t = "load_redshift" THEN 0 ELSE rsStep
  /\ pgStep' = IF t = "load_postgres" THEN 0 ELSE pgStep
  /\ UNCHANGED <<dbVars, callVars, connVars, traceVars, pc, outcome, failedAt,
                 processed>>
  /\ UNCHANGED <<transformVars, allVars>>

\* a task whose upstream task failed is not run
UpstreamFailed(t) ==
  /\ taskState[t] = "none"
  /\ \E u \in Upstream(t) : taskState[u] \in {"failed", "upstream_failed"}
  /\ taskState' = [taskState EXCEPT ![t] = "upstream_failed"]
  /\ UNCHANGED <<dbVars, callVars, connVars, traceVars, pc, outcome, failedAt,
                 tries, rsStep, pgStep, processed>>
  /\ UNCHANGED <<transformVars, allVars>>

\* the state of a task after its callable returned (ok) or raised
Finished(t, ok) ==
  [taskState EXCEPT ![t] = IF ok THEN "success"
                           ELSE IF tries[t] <= retries THEN "up_for_retry"
                           ELSE "failed"]

\* run_extract: extract_all_data returns, or raises and the task re-raises
run_extract ==
  /\ taskState["extract"] = "running"
  /\ \E ok \in BOOLEAN : taskState' = Finished("extract", ok)
  /\ UNCHANGED <<dbVars, callVars, connVars, traceVars, pc, outcome, failedAt,
                 tries, rsStep, pgStep, processed>>
  /\ UNCHANGED <<transformVars, allVars>>

\* run_transform: reads the raw files and runs the three process_* functions,
\* or raises
run_transform ==
  /\ taskState["transform"] = "running"
  /\ \E ok \in BOOLEAN : taskState' = Finished("transform", ok)
  /\ UNCHANGED <<dbVars, callVars, connVars, traceVars, pc, outcome, failedAt,
                 tries, rsStep, pgStep, processed>>
  /\ UNCHANGED <<transformVars, allVars>>

\* run_load_postgres: the six pd.read_parquet calls (FileNotFoundError when
\* the files are missing), then load_all_data(brent_clean=..., ...), which
\* raises TypeError: load_all_data has no such parameters
run_load_postgres ==
  /\ taskState["load_postgres"] = "running"
  /\ IF pgStep = 0 /\ processed
     THEN pgStep' = 1 /\ UNCHANGED taskState
     ELSE taskState' = Finished("load_postgres", FALSE) /\ UNCHANGED pgStep
  /\ UNCHANGED <<dbVars, callVars, connVars, traceVars, pc, outcome, failedAt,
                 tries, rsStep, processed>>
  /\ UNCHANGED <<transformVars, allVars>>

\* the rows of the artifacts of data/processed, and of the tables before the run
NewRows == << <<1, 2>> >>

OldRows == BagOfSeq(<< <<1, 1>> >>)

ProcessedDf(t) == [columns |-> AllCols(t), rows |-> NewRows]

\* the files of data/processed that run_load_postgres and run_load_redshift
\* read with pd.read_parquet
ProcessedFiles ==
  {"data/processed/brent_price_cleaned.parquet",
   "data/processed/fuel_price_cleaned.parquet",
   "data/processed/dollar_price_cleaned.parquet",
   "data/processed/brent_price_monthly.parquet",
   "data/processed/fuel_price_aggregated.parquet",
   "data/processed/dollar_price_aggregated.parquet"}

\* the files run_transform writes: process_fuel_data_pipeline saves the clean
\* fuel DataFrame under data/raw; every other result is dropped
TransformWrites == {"data/raw/fuel_clean_<timestamp>.parquet"}

\* load_all_data_to_redshift: the calls it makes, in order
RsProgram ==
  << [fn |-> "test_redshift_connection", table |-> "staging_brent_price"],
     [fn |-> "verify_schema_exists", table |-> "staging_brent_price"],
     [fn |-> "create_staging_tables", table |-> "staging_brent_price"],
     [fn |-> "create_analytics_tables", table |-> "analytics_brent_prices_monthly"],
     [fn |-> "load_to_redshift", table |-> "staging_brent_price"],
     [fn |-> "load_to_redshift", table |-> "staging_fuel_prices"],
     [fn |-> "load_to_redshift", table |-> "staging_usd_ars_rates"],
     [fn |-> "load_to_redshift", table |-> "analytics_brent_prices_monthly"],
     [fn |-> "load_to_redshift", table |-> "analytics_fuel_prices_monthly"],
     [fn |-> "load_to_redshift", table |-> "analytics_usd_ars_rates_monthly"] >>

\* run_load_redshift: the six pd.read_parquet calls
RedshiftReadParquet ==
  /\ taskState["load_redshift"] = "running"
  /\ rsStep = 0
  /\ IF processed
     THEN rsStep' = 1 /\ UNCHANGED taskState
     ELSE taskState' = Finished("load_redshift", FALSE) /\ UNCHANGED rsStep
  /\ UNCHANGED <<dbVars, callVars, connVars, traceVars, pc, outcome, failedAt,
                 tries, pgStep, processed>>
  /\ UNCHANGED <<transformVars, allVars>>

\* load_all_data_to_redshift makes its next call; every load is called with
\* the default truncate=True
RedshiftCall ==
  /\ taskState["load_redshift"] = "running"
  /\ rsStep \in DOMAIN RsProgram
  /\ pc = "idle"
  /\ LET c == RsProgram[rsStep] IN
       IF c.fn = "load_to_redshift"
       THEN Called(c.fn, c.table, ProcessedDf(c.table), TRUE, "rs_empty")
       ELSE Called(c.fn, c.table, NoDf, FALSE, "rs_connect")
  /\ repeat' = FALSE
  /\ UNCHANGED <<dbVars, dagVars, transformVars, allVars>>

\* the call returned: the next call follows; a False connection test raises
\* ConnectionError and an exception propagates: the task fails
RedshiftReturn ==
  /\ taskState["load_redshift"] = "running"
  /\ pc = "done"
  /\ IF outcome = "ok"
     THEN /\ rsStep' = rsStep + 1
          /\ taskState' = IF rsStep = Len(RsProgram)
                          THEN Finished("load_redshift", TRUE) ELSE taskState
     ELSE /\ taskState' = Finished("load_redshift", FALSE)
          /\ UNCHANGED rsStep
  /\ Called("none", target, NoDf, FALSE, "idle")
  /\ repeat' = FALSE
  /\ UNCHANGED <<dbVars, tries, pgStep, processed>>
  /\ UNCHANGED <<transformVars, allVars>>

OldDb == [t \in Tables |-> [exists |-> TRUE, rows |-> OldRows]]

InitDag ==
  /\ committed = OldDb
  /\ txn = OldDb
  /\ target = "staging_brent_price"
  /\ df = NoDf
  /\ truncate = FALSE
  /\ caller = "none"
  /\ pc = "idle"
  /\ outcome = "none"
  /\ failedAt = "none"
  /\ connOpen = FALSE
  /\ nOpened = 0
  /\ nClosed = 0
  /\ rollbackIssued = FALSE
  /\ issued = {}
  /\ insertedCols = {}
  /\ before = OldDb[target]
  /\ repeat = FALSE
  /\ taskState = [t \in Tasks |-> "none"]
  /\ tries = [t \in Tasks |-> 0]
  /\ rsStep = 0
  /\ pgStep = 0
  /\ processed \in BOOLEAN
  /\ raw = NoFrame
  /\ clean = NoFrame
  /\ aggregated = NoFrame
  /\ df_to_load = NoFrame
  /\ error = NoError
  /\ allFn = NoCall
  /\ allStep = 0
  /\ called = << >>
  /\ allOutcome = "none"

NextDag ==
  \/ \E t \in Tasks : StartTask(t)
  \/ \E t \in Tasks : UpstreamFailed(t)
  \/ run_extract
  \/ run_transform
  \/ run_load_postgres
  \/ RedshiftReadParquet
  \/ RedshiftCall
  \/ RedshiftReturn
  \/ LoadEmptyCheck \/ RedshiftConnect \/ RedshiftCursor \/ RedshiftTruncate
  \/ RedshiftInsert \/ RedshiftSelect \/ RedshiftVerify \/ RedshiftDrop
  \/ RedshiftCommitDrops \/ RedshiftCreate \/ RedshiftCommit \/ RedshiftExcept
  \/ RedshiftFinally

SpecDag == InitDag /\ [][NextDag]_vars

\* ------------------------------ load_all_data and load_all_data_to_redshift

\* a body that loads the analytics tables whatever load_to_analytics is
PgProgramAnalyticsAlways(flag) ==
  << [fn |-> "test_connection", table |-> "staging.brent_prices", df |-> "none"],
     [fn |-> "load_brent_to_staging", table |-> "staging.brent_prices",
      df |-> "brent_df"],
     [fn |-> "load_fuel_to_staging", table |-> "staging.fuel_prices",
      df |-> "fuel_df"],
     [fn |-> "load_usd_ars_to_staging", table |-> "staging.usd_ars_rates",
      df |-> "usd_ars_df"],
     [fn |-> "load_brent_to_analytics", table |-> "analytics.brent_prices_monthly",
      df |-> "brent_df"],
     [fn |-> "load_fuel_to_analytics", table |-> "analytics.fuel_prices_monthly",
      df |-> "fuel_df"],
     [fn |-> "load_usd_ars_to_analytics",
      table |-> "analytics.usd_ars_rates_monthly", df |-> "usd_ars_df"] >>

\* load_all_data: the calls of its body, in order, and the parameter each
\* load is handed; the analytics loads only if load_to_analytics
PgProgram(flag) ==
  << [fn |-> "test_connection", table |-> "staging.brent_prices", df |-> "none"],
     [fn |-> "load_brent_to_staging", table |-> "staging.brent_prices",
      df |-> "brent_df"],
     [fn |-> "load_fuel_to_staging", table |-> "staging.fuel_prices",
      df |-> "fuel_df"],
     [fn |-> "load_usd_ars_to_staging", table |-> "staging.usd_ars_rates",
      df |-> "usd_ars_df"] >>
  \o IF flag
     THEN << [fn |-> "load_brent_to_analytics",
              table |-> "analytics.brent_prices_monthly", df |-> "brent_df"],
             [fn |-> "load_fuel_to_analytics",
              table |-> "analytics.fuel_prices_monthly", df |-> "fuel_df"],
             [fn |-> "load_usd_ars_to_analytics",
              table |-> "analytics.usd_ars_rates_monthly", df |-> "usd_ars_df"] >>
     ELSE << >>

\* a body that tests the connection after its other calls
AllProgramTestLast(c) ==
  LET p == IF c.fn = "load_all_data" THEN PgProgram(c.load_to_analytics)
           ELSE RsProgram
  IN Tail(p) \o <<Head(p)>>

\* the calls of the body of the function that runs
AllProgram(c) ==
  IF c.fn = "load_all_data" THEN PgProgram(c.load_to_analytics) ELSE RsProgram

\* the DataFrame a call of the body is handed
ArgDf(c, e) ==
  IF e.fn \notin LoadFunctions THEN NoDf
  ELSE IF c.fn = "load_all_data" THEN c[e.df]
  ELSE ProcessedDf(e.table)

\* the first step of a call of the body
FirstCallStep(e) ==
  IF e.fn \in LoadFunctions THEN FirstStep(e.table)
  ELSE IF e.fn = "test_connection" THEN "connect"
  ELSE "rs_connect"

\* the column sets of a DataFrame handed to load_all_data: the columns of the
\* clean artifact, of the analytics artifact, or of both
ArgColumnSets(staging, analytics) ==
  {AllCols(staging), AllCols(analytics), AllCols(staging) \cup AllCols(analytics)}

\* load_all_data(brent_df, fuel_df, usd_ars_df, load_to_analytics) is called
CallLoadAllData ==
  /\ allFn = NoCall
  /\ \E flag \in BOOLEAN,
        b \in ArgColumnSets("staging.brent_prices", "analytics.brent_prices_monthly"),
        f \in ArgColumnSets("staging.fuel_prices", "analytics.fuel_prices_monthly"),
        u \in ArgColumnSets("staging.usd_ars_rates",
                            "analytics.usd_ars_rates_monthly") :
       allFn' = [fn |-> "load_all_data", load_to_analytics |-> flag,
                 brent_df |-> [columns |-> b, rows |-> NewRows],
                 fuel_df |-> [columns |-> f, rows |-> NewRows],
                 usd_ars_df |-> [columns |-> u, rows |-> NewRows]]
  /\ allStep' = 1
  /\ UNCHANGED <<dbVars, callVars, connVars, traceVars, pc, outcome, failedAt,
                 dagVars, transformVars, called, allOutcome>>

\* load_all_data_to_redshift(brent_clean, ..., usd_ars_analytics) is called
CallLoadAllDataToRedshift ==
  /\ allFn = NoCall
  /\ allFn' = [NoCall EXCEPT !.fn = "load_all_data_to_redshift"]
  /\ allStep' = 1
  /\ UNCHANGED <<dbVars, callVars, connVars, traceVars, pc, outcome, failedAt,
                 dagVars, transformVars, called, allOutcome>>

\* the body makes its next call; every load is called with the default
\* truncate=True
LoadAllCall ==
  /\ allFn # NoCall
  /\ allOutcome = "none"
  /\ pc = "idle"
  /\ allStep \in DOMAIN AllProgram(allFn)
  /\ LET e == AllProgram(allFn)[allStep] IN
       /\ Called(e.fn, e.table, ArgDf(allFn, e), e.fn \in LoadFunctions,
                 FirstCallStep(e))
       /\ called' = Append(called, [fn |-> e.fn, table |-> e.table,
                                    result |-> "none"])
  /\ repeat' = FALSE
  /\ UNCHANGED <<dbVars, dagVars, transformVars, allFn, allStep, allOutcome>>

\* the call returned: the next call follows, and after the last the function
\* returns; a False connection test raises ConnectionError; an exception of a
\* call propagates
LoadAllReturn ==
  /\ allFn # NoCall
  /\ allOutcome = "none"
  /\ pc = "done"
  /\ called' = [called EXCEPT ![Len(called)].result = outcome]
  /\ IF outcome = "ok"
     THEN /\ allStep' = allStep + 1
          /\ allOutcome' = IF allStep = Len(AllProgram(allFn)) THEN "ok" ELSE "none"
     ELSE /\ allOutcome' = IF outcome = "false" THEN "ConnectionError" ELSE "raised"
          /\ UNCHANGED allStep
  /\ Called("none", target, NoDf, FALSE, "idle")
  /\ repeat' = FALSE
  /\ UNCHANGED <<dbVars, dagVars, transformVars, allFn>>

InitLoadAll ==
  /\ committed = OldDb
  /\ txn = OldDb
  /\ target = "staging.brent_prices"
  /\ df = NoDf
  /\ truncate = FALSE
  /\ caller = "none"
  /\ pc = "idle"
  /\ outcome = "none"
  /\ failedAt = "none"
  /\ connOpen = FALSE
  /\ nOpened = 0
  /\ nClosed = 0
  /\ rollbackIssued = FALSE
  /\ issued = {}
  /\ insertedCols = {}
  /\ before = OldDb[target]
  /\ repeat = FALSE
  /\ taskState = [t \in Tasks |-> "none"]
  /\ tries = [t \in Tasks |-> 0]
  /\ rsStep = 0
  /\ pgStep = 0
  /\ processed = TRUE
  /\ raw = NoFrame
  /\ clean = NoFrame
  /\ aggregated = NoFrame
  /\ df_to_load = NoFrame
  /\ error = NoError
  /\ allFn = NoCall
  /\ allStep = 0
  /\ called = << >>
  /\ allOutcome = "none"

NextLoadAll ==
  \/ CallLoadAllData
  \/ CallLoadAllDataToRedshift
  \/ LoadAllCall
  \/ LoadAllReturn
  \/ LoadPyStep
  \/ LoadRedshiftStep
  \/ RedshiftVerify \/ RedshiftDrop \/ RedshiftCommitDrops \/ RedshiftCreate

SpecLoadAll == InitLoadAll /\ [][NextLoadAll]_vars

\* ------------------------------------------------------------- DataFrames

\* the longest raw DataFrame
MaxRaw == 2

\* the null markers: NaT / NaN of a date or numeric column, None of a text column
NaT == 0

NaN == 0 - 1

None == "None"

\* pd.DataFrame(...): the rows get the index labels 0..n-1
Frame(cols, rows) ==
  [columns |-> cols, rows |-> rows, index |-> [i \in DOMAIN rows |-> i - 1]]

\* the positions of S in ascending order
RECURSIVE Ascending(_)
Ascending(S) ==
  IF S = {} THEN << >>
  ELSE LET m == CHOOSE x \in S : \A y \in S : x <= y
       IN <<m>> \o Ascending(S \ {m})

\* the rows of f at the positions pos, in that order, with their index labels
Take(f, pos) ==
  [columns |-> f.columns,
   rows |-> [i \in DOMAIN pos |-> f.rows[pos[i]]],
   index |-> [i \in DOMAIN pos |-> f.index[pos[i]]]]

\* boolean indexing / dropna: the rows at the positions keep, in their order
Filter(f, keep) == Take(f, Ascending(keep))

\* assignment to columns: the rows replaced by rows
Assign(f, rows) == [f EXCEPT !.rows = rows]

\* DataFrame.drop_duplicates (keep="first"): key[i] is the key of row i; a
\* row stays unless an earlier row has the same key
drop_duplicates(f, key) ==
  Take(f, Ascending({i \in DOMAIN f.rows : \A j \in DOMAIN f.rows : j < i => key[j] # key[i]}))

\* the sort key of a date: NaT sorts after every date (na_position="last")
SortKey(d) == IF d = NaT THEN 99999999 ELSE d

\* the positions S ordered by date, positions of equal date in their order
RECURSIVE Ordered(_, _)
Ordered(date, S) ==
  IF S = {} THEN << >>
  ELSE LET m == CHOOSE i \in S :
                  \A j \in S :
                    \/ SortKey(date[i]) < SortKey(date[j])
                    \/ SortKey(date[i]) = SortKey(date[j]) /\ i <= j
       IN <<m>> \o Ordered(date, S \ {m})

\* DataFrame.sort_values(by=<date column>): date[i] is the date of row i
sort_values(f, date) == Take(f, Ordered(date, DOMAIN f.rows))

\* DataFrame.reset_index(drop=True)
reset_index(f) == [f EXCEPT !.index = [i \in DOMAIN f.rows |-> i - 1]]

\* the result of a step of a transform function: a DataFrame, or an exception
Ok(f) == [frame |-> f, error |-> NoError]

Raise(type, step, cols) ==
  [frame |-> NoFrame,
   error |-> [type |-> type, at |-> step, missing |-> cols, after |-> << >>]]

\* ------------------------------------------------ transform.py: fuel prices

\* START_DATE_FUEL_PRICE = "2025-01-01"
START_DATE_FUEL_PRICE == 20250101

\* the keys of PRODUCTO_MAP and the standard name of each ("n/d" maps to
\* np.nan); "mas" is written without its accent
PRODUCTO_MAP ==
  [k \in {"nafta (super) entre 92 y 95 ron", "nafta (premium) de mas de 95 ron",
          "nafta (comun) hasta 92 ron", "gas oil grado 2", "gas oil grado 3",
          "gnc", "kerosene", "glpa", "n/d"} |->
     CASE k = "nafta (super) entre 92 y 95 ron" -> "NAFTA GRADO 2"
       [] k = "nafta (premium) de mas de 95 ron" -> "NAFTA GRADO 3"
       [] k = "nafta (comun) hasta 92 ron" -> "NAFTA GRADO 1"
       [] k = "gas oil grado 2" -> "GASOIL GRADO 2"
       [] k = "gas oil grado 3" -> "GASOIL GRADO 3"
       [] k = "gnc" -> "GNC"
       [] k = "kerosene" -> "KEROSENE"
       [] k = "glpa" -> "GLPA"
       [] OTHER -> None]

\* columns.str.lower().str.replace(" ", "_").str.replace(".", "_") and the
\* removal of diacritics, on the column names of the raw fuel DataFrames
normalize(c) ==
  CASE c = "PERIODO" -> "periodo"
    [] c = "Precio Surtidor" -> "precio_surtidor"
    [] c = "Producto" -> "producto"
    [] c = "Provincia" -> "provincia"
    [] c = "Bandera" -> "bandera"
    [] c = "Volumen" -> "volumen"
    [] OTHER -> c

\* pd.to_datetime(..., format="%Y/%m", errors="coerce"): the first day of the
\* month as the number yyyymmdd, NaT for a text that is not a month
to_datetime_Ym(s) ==
  CASE s = "2024/12" -> 20241201
    [] s = "2025/01" -> 20250101
    [] OTHER -> NaT

\* pd.to_numeric(..., errors="coerce"): the number in hundredths, NaN for a
\* text that is not a number
to_numeric(s) ==
  CASE s = "0.5" -> 50
    [] s = "1.0" -> 100
    [] s = "80.5" -> 8050
    [] s = "81.2" -> 8120
    [] s = "100" -> 10000
    [] s = "120" -> 12000
    [] OTHER -> NaN

\* a lookup that keeps the letter case of the label
lower_keeps_case(s) == s

\* Series.str.lower() on the product labels (a null stays null)
lower(s) ==
  CASE s = "GNC" -> "gnc"
    [] OTHER -> s

\* Series.map(PRODUCTO_MAP): a label that is not a key maps to a null
map_PRODUCTO_MAP(s) == IF s \in DOMAIN PRODUCTO_MAP THEN PRODUCTO_MAP[s] ELSE None

\* required_cols of clean_fuel_price
fuel_required_cols == {"periodo", "precio_surtidor", "producto"}

\* cleaned_df.columns = cleaned_df.columns.str.lower()...
fuel_normalize(f) == Ok([f EXCEPT !.columns = {normalize(c) : c \in f.columns}])

\* a validation that accepts every DataFrame
fuel_validate_nothing(f) == Ok(f)

\* missing = set(required_cols) - set(cleaned_df.columns); raise ValueError
fuel_validate(f) ==
  LET missing == fuel_required_cols \ f.columns IN
  IF missing # {} THEN Raise("ValueError", "validate", missing) ELSE Ok(f)

\* the conversions of periodo and precio_surtidor (indexing a column the
\* DataFrame does not have raises KeyError)
fuel_coerce(f) ==
  IF ~({"periodo", "precio_surtidor"} \subseteq f.columns)
  THEN Raise("KeyError", "coerce", {"periodo", "precio_surtidor"} \ f.columns)
  ELSE Ok(Assign(f, [i \in DOMAIN f.rows |->
                       [f.rows[i] EXCEPT !.periodo = to_datetime_Ym(@),
                                         !.precio_surtidor = to_numeric(@)]]))

\* cleaned_df.dropna(subset=["periodo", "precio_surtidor"])
fuel_dropna(f) ==
  Ok(Filter(f, {i \in DOMAIN f.rows :
                  f.rows[i].periodo # NaT /\ f.rows[i].precio_surtidor # NaN}))

\* cleaned_df.drop_duplicates(): rows equal in every column
fuel_drop_duplicates(f) == Ok(drop_duplicates(f, f.rows))

\* cleaned_df.sort_values("periodo").reset_index(drop=True)
fuel_sort(f) ==
  Ok(reset_index(sort_values(f, [i \in DOMAIN f.rows |-> f.rows[i].periodo])))

\* cleaned_df["producto"] = cleaned_df["producto"].str.lower().map(PRODUCTO_MAP)
fuel_map(f) ==
  IF "producto" \notin f.columns THEN Raise("KeyError", "map", {"producto"})
  ELSE Ok(Assign(f, [i \in DOMAIN f.rows |->
                       [f.rows[i] EXCEPT !.producto = map_PRODUCTO_MAP(lower(@))]]))

\* a dropna that keeps the rows whose product did not map
fuel_dropna_producto_keeps(f) == Ok(f)

\* cleaned_df.dropna(subset=["producto"])
fuel_dropna_producto(f) ==
  Ok(Filter(f, {i \in DOMAIN f.rows : f.rows[i].producto # None}))

\* --------------------------------------- transform.py: Brent and USD/ARS

\* pd.to_datetime of a day: the number yyyymmdd; the empty text gives NaT
to_datetime(s) ==
  CASE s = "2022-01-01" -> 20220101
    [] s = "2022-01-02" -> 20220102
    [] s = "2022-03-15" -> 20220315
    [] s = "2025-01-01" -> 20250101
    [] s = "2025-01-02" -> 20250102
    [] OTHER -> NaT

\* the texts pd.to_datetime cannot parse (without errors="coerce" it raises)
not_a_date(s) == to_datetime(s) = NaT /\ s # ""

\* cleaned_df.dropna(): the rows without a null in any column
brent_dropna(f) ==
  Ok(Filter(f, {i \in DOMAIN f.rows :
                  f.rows[i].date # None /\ f.rows[i].brent_price # None}))

\* rename(columns={"Date": "date"}); cleaned_df["date"] =
\* pd.to_datetime(cleaned_df["date"])
brent_to_datetime(f) ==
  LET cols == {IF c = "Date" THEN "date" ELSE c : c \in f.columns} IN
  IF "date" \notin cols THEN Raise("KeyError", "to_datetime", {"date"})
  ELSE IF \E i \in DOMAIN f.rows : not_a_date(f.rows[i].date)
  THEN Raise("ValueError", "to_datetime", {})
  ELSE Ok(Assign([f EXCEPT !.columns = cols],
                 [i \in DOMAIN f.rows |-> [f.rows[i] EXCEPT !.date = to_datetime(@)]]))

\* rename(columns={"brent_price_usd": "brent_price"}); cleaned_df["brent_price"]
\* = cleaned_df["brent_price"].astype(float)
brent_astype_float(f) ==
  LET cols == {IF c = "brent_price_usd" THEN "brent_price" ELSE c : c \in f.columns} IN
  IF "brent_price" \notin cols THEN Raise("KeyError", "astype", {"brent_price"})
  ELSE IF \E i \in DOMAIN f.rows : to_numeric(f.rows[i].brent_price) = NaN
  THEN Raise("ValueError", "astype", {})
  ELSE Ok(Assign([f EXCEPT !.columns = cols],
                 [i \in DOMAIN f.rows |->
                    [f.rows[i] EXCEPT !.brent_price = to_numeric(@)]]))

\* cleaned_df.drop_duplicates(subset=["date"])
brent_drop_duplicates(f) ==
  Ok(drop_duplicates(f, [i \in DOMAIN f.rows |-> f.rows[i].date]))

\* cleaned_df.sort_values(by="date").reset_index(drop=True)
brent_sort(f) ==
  Ok(reset_index(sort_values(f, [i \in DOMAIN f.rows |-> f.rows[i].date])))

\* df.rename(columns={"fecha": "date"})
dollar_rename(f) ==
  Ok([f EXCEPT !.columns = {IF c = "fecha" THEN "date" ELSE c : c \in f.columns}])

\* df["date"] = pd.to_datetime(df["date"], format="%Y-%m-%d", errors="coerce")
dollar_to_datetime(f) ==
  IF "date" \notin f.columns THEN Raise("KeyError", "to_datetime", {"date"})
  ELSE Ok(Assign(f, [i \in DOMAIN f.rows |->
                       [f.rows[i] EXCEPT !.date = to_datetime(@)]]))

\* df.dropna(subset=["date"])
dollar_dropna(f) == Ok(Filter(f, {i \in DOMAIN f.rows : f.rows[i].date # NaT}))

\* ------------------------------------------------ transform.py: the cleaners

\* one statement of a cleaner, applied to the DataFrame it works on
Step(name, f) ==
  CASE name = "fuel_normalize" -> fuel_normalize(f)
    [] name = "fuel_validate" -> fuel_validate(f)
    [] name = "fuel_coerce" -> fuel_coerce(f)
    [] name = "fuel_dropna" -> fuel_dropna(f)
    [] name = "fuel_drop_duplicates" -> fuel_drop_duplicates(f)
    [] name = "fuel_sort" -> fuel_sort(f)
    [] name = "fuel_map" -> fuel_map(f)
    [] name = "fuel_dropna_producto" -> fuel_dropna_producto(f)
    [] name = "brent_dropna" -> brent_dropna(f)
    [] name = "brent_to_datetime" -> brent_to_datetime(f)
    [] name = "brent_astype_float" -> brent_astype_float(f)
    [] name = "brent_drop_duplicates" -> brent_drop_duplicates(f)
    [] name = "brent_sort" -> brent_sort(f)
    [] name = "dollar_rename" -> dollar_rename(f)
    [] name = "dollar_to_datetime" -> dollar_to_datetime(f)
    [] OTHER -> dollar_dropna(f)

\* the statements of a function body run in order from statement i; the first
\* exception ends the function, and records the statement that raised and the
\* statements that ran before it
RECURSIVE RunSteps(_, _, _)
RunSteps(steps, i, f) ==
  IF i > Len(steps) THEN Ok(f)
  ELSE LET r == Step(steps[i], f) IN
       IF r.error.type # "none"
       THEN [r EXCEPT !.error.at = steps[i],
                      !.error.after = SubSeq(steps, 1, i - 1)]
       ELSE RunSteps(steps, i + 1, r.frame)

\* the body of clean_brent_price
clean_brent_steps ==
  <<"brent_dropna", "brent_to_datetime", "brent_astype_float",
    "brent_drop_duplicates", "brent_sort">>

\* the body of clean_fuel_price
clean_fuel_steps ==
  <<"fuel_normalize", "fuel_validate", "fuel_coerce", "fuel_dropna",
    "fuel_drop_duplicates", "fuel_sort", "fuel_map", "fuel_dropna_producto">>

\* the body of clean_dollar_price
clean_dollar_steps == <<"dollar_rename", "dollar_to_datetime", "dollar_dropna">>

clean_brent_price(d) == RunSteps(clean_brent_steps, 1, d)

clean_fuel_price(d) == RunSteps(clean_fuel_steps, 1, d)

clean_dollar_price(d) == RunSteps(clean_dollar_steps, 1, d)

\* --------------------------------------------- transform.py: fuel_price_aggs

\* COLUMNAS_RELEVANTES
COLUMNAS_RELEVANTES ==
  {"periodo", "provincia", "bandera", "producto", "precio_surtidor", "volumen"}

\* the place of a text among the texts of its column in ascending order
TextRank(s) ==
  CASE s \in {"Buenos Aires", "GASOIL GRADO 2", "YPF"} -> 1
    [] s \in {"Mendoza", "GASOIL GRADO 3"} -> 2
    [] s = "GLPA" -> 3
    [] s = "GNC" -> 4
    [] s = "KEROSENE" -> 5
    [] s = "NAFTA GRADO 1" -> 6
    [] s = "NAFTA GRADO 2" -> 7
    [] OTHER -> 8

\* the group key of a row: ["periodo", "provincia", "bandera", "producto"]
GroupKey(r) == <<r.periodo, r.provincia, r.bandera, r.producto>>

\* groupby leaves out the rows with a null in a key column (dropna=True)
HasKey(r) ==
  r.periodo # NaT /\ r.provincia # None /\ r.bandera # None /\ r.producto # None

\* the order of the group keys in the result (sort=True)
KeyBefore(a, b) ==
  LET ra == <<a[1], TextRank(a[2]), TextRank(a[3]), TextRank(a[4])>>
      rb == <<b[1], TextRank(b[2]), TextRank(b[3]), TextRank(b[4])>>
  IN \E n \in 1..4 : ra[n] < rb[n] /\ \A m \in 1..(n - 1) : ra[m] = rb[m]

RECURSIVE SortedKeys(_)
SortedKeys(S) ==
  IF S = {} THEN << >>
  ELSE LET k == CHOOSE a \in S : \A b \in S \ {a} : KeyBefore(a, b)
       IN <<k>> \o SortedKeys(S \ {k})

\* the numbers of a sequence in ascending order
RECURSIVE SortedNumbers(_)
SortedNumbers(v) ==
  IF v = << >> THEN << >>
  ELSE LET m == CHOOSE i \in DOMAIN v : \A j \in DOMAIN v : v[i] <= v[j]
       IN <<v[m]>> \o SortedNumbers([i \in 1..(Len(v) - 1) |->
                                       IF i < m THEN v[i] ELSE v[i + 1]])

\* the "median" aggregation: the middle value, or the mean of the two middle
\* values (the prices are even numbers of hundredths, so the mean is exact)
median(v) ==
  LET s == SortedNumbers(v)
      n == Len(s)
  IN IF n % 2 = 1 THEN s[(n + 1) \div 2]
     ELSE (s[n \div 2] + s[n \div 2 + 1]) \div 2

\* the "sum" aggregation
RECURSIVE sum(_)
sum(v) == IF v = << >> THEN 0 ELSE v[1] + sum(Tail(v))

\* the rows of f that belong to the group of key k
GroupRows(f, k) ==
  Filter(f, {i \in DOMAIN f.rows : HasKey(f.rows[i]) /\ GroupKey(f.rows[i]) = k}).rows

\* df[columns_to_keep].groupby(["periodo", "provincia", "bandera", "producto"],
\* as_index=False).agg(precio_surtidor_mediana=("precio_surtidor", "median"),
\* volumen_total=("volumen", "sum"))
fuel_price_aggs(f) ==
  IF ~(COLUMNAS_RELEVANTES \subseteq f.columns)
  THEN Raise("KeyError", "groupby", COLUMNAS_RELEVANTES \ f.columns)
  ELSE LET keys == SortedKeys({GroupKey(f.rows[i]) :
                                 i \in {j \in DOMAIN f.rows : HasKey(f.rows[j])}})
       IN Ok(Frame({"periodo", "provincia", "bandera", "producto",
                    "precio_surtidor_mediana", "volumen_total"},
                   [n \in DOMAIN keys |->
                      LET g == GroupRows(f, keys[n]) IN
                      [periodo |-> keys[n][1],
                       provincia |-> keys[n][2],
                       bandera |-> keys[n][3],
                       producto |-> keys[n][4],
                       precio_surtidor_mediana |->
                         median([i \in DOMAIN g |-> g[i].precio_surtidor]),
                       volumen_total |-> sum([i \in DOMAIN g |-> g[i].volumen])]]))

\* load_to_redshift: df_copy = df_copy[available_cols]
select_available_cols(t, f) ==
  LET cols == available_cols(t, f) IN
  [columns |-> cols,
   rows |-> [i \in DOMAIN f.rows |-> [c \in cols |-> f.rows[i][c]]],
   index |-> f.index]

\* ------------------------------------- transform.py: the monthly aggregators

RECURSIVE GCD(_, _)
GCD(a, b) == IF b = 0 THEN a ELSE GCD(b, a % b)

\* a mean is kept exact, as the fraction num / den in lowest terms
Rat(n, d) ==
  LET g == GCD(IF n < 0 THEN 0 - n ELSE n, d)
  IN [num |-> n \div g, den |-> d \div g]

RatEq(a, b) == a.num * b.den = b.num * a.den

RatAdd(a, b) == Rat(a.num * b.den + b.num * a.den, a.den * b.den)

RatSub(a, b) == Rat(a.num * b.den - b.num * a.den, a.den * b.den)

RatDiv(a, b) == Rat(a.num * b.den, a.den * b.num)

RECURSIVE RatSum(_)
RatSum(v) == IF v = << >> THEN Rat(0, 1) ELSE RatAdd(v[1], RatSum(Tail(v)))

\* the mean of no value: NaN
NaNMean == [num |-> 0, den |-> 0]

\* np.mean / "mean" of the values of a bucket: NaN when the bucket is empty
mean(v) ==
  IF v = << >> THEN NaNMean
  ELSE LET s == RatSum(v) IN Rat(s.num, s.den * Len(v))

\* the calendar month yyyymm of the day yyyymmdd
Month(d) == d \div 100

NextMonth(ym) == IF ym % 100 = 12 THEN (ym \div 100 + 1) * 100 + 1 ELSE ym + 1

DaysInMonth(ym) ==
  LET y == ym \div 100
      m == ym % 100
  IN CASE m \in {4, 6, 9, 11} -> 30
       [] m = 2 -> IF y % 4 = 0 /\ (y % 100 # 0 \/ y % 400 = 0) THEN 29 ELSE 28
       [] OTHER -> 31

\* the label a resample by "M" gives the bucket of a month: its last day
MonthEnd(ym) == ym * 100 + DaysInMonth(ym)

\* the months from a to b
RECURSIVE MonthRange(_, _)
MonthRange(a, b) == IF a > b THEN << >> ELSE <<a>> \o MonthRange(NextMonth(a), b)

\* the rows of f with a date (a resample and a groupby leave out NaT)
Dated(f) == {i \in DOMAIN f.rows : f.rows[i].date # NaT}

\* df.resample("M"): one bucket for every month from the first date to the
\* last, also for a month without rows
Bins(f) ==
  LET months == {Month(f.rows[i].date) : i \in Dated(f)} IN
  IF months = {} THEN << >>
  ELSE MonthRange(CHOOSE a \in months : \A b \in months : a <= b,
                  CHOOSE a \in months : \A b \in months : a >= b)

\* the rows of f in the month ym
MonthRows(f, ym) ==
  Filter(f, {i \in Dated(f) : Month(f.rows[i].date) = ym}).rows

\* agg_brent_price: df.set_index("date").resample("M")
\* .agg({"brent_price": np.mean}).reset_index()
agg_brent_price(f) ==
  IF ~({"date", "brent_price"} \subseteq f.columns)
  THEN Raise("KeyError", "resample", {"date", "brent_price"} \ f.columns)
  ELSE LET bins == Bins(f) IN
       Ok(Frame({"date", "brent_price"},
                [n \in DOMAIN bins |->
                   LET g == MonthRows(f, bins[n]) IN
                   [date |-> MonthEnd(bins[n]),
                    brent_price |-> mean([i \in DOMAIN g |-> Rat(g[i].brent_price, 1)])]]))

\* the columns of the wide USD/ARS DataFrame next to its date
dollar_value_cols == {"usd_ars_oficial", "usd_ars_blue", "brecha_cambiaria_pct"}

\* dollar_price_aggs: df.set_index("date").resample("M").agg(np.mean)
\* .reset_index(), of a DataFrame whose other columns are numbers
dollar_price_aggs(f) ==
  IF "date" \notin f.columns THEN Raise("KeyError", "resample", {"date"})
  ELSE LET bins == Bins(f) IN
       Ok(Frame(f.columns,
                [n \in DOMAIN bins |->
                   LET g == MonthRows(f, bins[n]) IN
                   [date |-> MonthEnd(bins[n]),
                    usd_ars_oficial |->
                      mean([i \in DOMAIN g |-> Rat(g[i].usd_ars_oficial, 1)]),
                    usd_ars_blue |->
                      mean([i \in DOMAIN g |-> Rat(g[i].usd_ars_blue, 1)]),
                    brecha_cambiaria_pct |->
                      mean([i \in DOMAIN g |-> g[i].brecha_cambiaria_pct])]]))

\* dollar_price_aggs_for_analytics: df.groupby(["year", "month"]).agg(
\* avg_usd_ars_oficial=("usd_ars_oficial", "mean"), avg_usd_ars_blue=(
\* "usd_ars_blue", "mean"), avg_brecha_cambiaria_pct=("brecha_cambiaria_pct",
\* "mean"), record_count=("usd_ars_oficial", "count")).reset_index()
dollar_price_aggs_for_analytics(f) ==
  IF "date" \notin f.columns THEN Raise("KeyError", "to_datetime", {"date"})
  ELSE IF ~(dollar_value_cols \subseteq f.columns)
  THEN Raise("KeyError", "groupby", dollar_value_cols \ f.columns)
  ELSE LET months == Ascending({Month(f.rows[i].date) : i \in Dated(f)}) IN
       Ok(Frame({"year", "month", "avg_usd_ars_oficial", "avg_usd_ars_blue",
                 "avg_brecha_cambiaria_pct", "record_count"},
                [n \in DOMAIN months |->
                   LET g == MonthRows(f, months[n]) IN
                   [year |-> months[n] \div 100,
                    month |-> months[n] % 100,
                    avg_usd_ars_oficial |->
                      mean([i \in DOMAIN g |-> Rat(g[i].usd_ars_oficial, 1)]),
                    avg_usd_ars_blue |->
                      mean([i \in DOMAIN g |-> Rat(g[i].usd_ars_blue, 1)]),
                    avg_brecha_cambiaria_pct |->
                      mean([i \in DOMAIN g |-> g[i].brecha_cambiaria_pct]),
                    record_count |-> Len(g)]]))

\* ------------------------------------------- the transform functions, called

\* the values of the columns of the raw DataFrames
RawPeriodos == {"2024/12", "2025/01", "s/d"}

RawPrecios == {"0.5", "100", "s/d"}

RawProductos == {"GNC", "n/d", "biodiesel"}

Provincias == {"Buenos Aires", "Mendoza"}

Volumenes == {1000, 2000}

FuelRow(p, pr, prod, prov, vol) ==
  [periodo |-> p, precio_surtidor |-> pr, producto |-> prod, provincia |-> prov,
   bandera |-> "YPF", volumen |-> vol]

\* the raw fuel rows: every period, price and product label at one station,
\* the stations, prices and volumes of one month and product, and a station
\* whose province is not filled in
RawFuelRows ==
  {FuelRow(p, pr, prod, "Buenos Aires", 1000) :
     p \in RawPeriodos, pr \in RawPrecios, prod \in RawProductos}
  \cup {FuelRow("2025/01", pr, "gnc", prov, vol) :
          pr \in {"100", "120"}, prov \in Provincias, vol \in Volumenes}
  \cup {FuelRow("2025/01", "100", "gnc", None, vol) : vol \in Volumenes}

\* the column names of a raw fuel DataFrame: as the cleaner names them, as
\* the source file names them, or without one of the required columns
RawFuelColumns ==
  {COLUMNAS_RELEVANTES,
   {"PERIODO", "Precio Surtidor", "Producto", "Provincia", "Bandera", "Volumen"}}
  \cup {COLUMNAS_RELEVANTES \ {c} : c \in fuel_required_cols}

RawBrentRows ==
  [date : {"2022-01-01", "2022-01-02", "2022-03-15", "", "ayer", None},
   brent_price : {"80.5", "81.2", "caro", None}]

RawBrentColumns == {{"date", "brent_price"}, {"Date", "brent_price_usd"}}

RawDollarRows ==
  [date : {"2025-01-01", "2025-01-02", "ayer"},
   source : {"Oficial", "Blue"},
   value_sell : {"1000", "s/d"}]

RawDollarColumns ==
  {{"fecha", "source", "value_sell"}, {"date", "source", "value_sell"}}

\* the wide USD/ARS rows: the official and the parallel sell rate of a day and
\* the gap of that day, (blue - oficial) / oficial * 100
RawDollarWideRows ==
  {[date |-> d, usd_ars_oficial |-> o, usd_ars_blue |-> b,
    brecha_cambiaria_pct |-> Rat((b - o) * 100, o)] :
     d \in {"2025-01-01", "2025-01-02"}, o \in {100, 102}, b \in {180, 184}}

RawDollarWideColumns ==
  {{"fecha"} \cup dollar_value_cols, {"date"} \cup dollar_value_cols}

\* raw is a DataFrame of at most MaxRaw rows with one of the given sets of
\* columns; a column the DataFrame does not have holds no value
RawFrame(columns, rows, names) ==
  \E cols \in columns, n \in 0..MaxRaw :
    \E s \in [1..n -> rows] :
      raw = Frame(cols, [i \in 1..n |->
                           [c \in DOMAIN s[i] |->
                              IF c \in names[cols] THEN s[i][c] ELSE None]])

RawFuelFrame ==
  RawFrame(RawFuelColumns, RawFuelRows,
           [cols \in RawFuelColumns |-> {normalize(c) : c \in cols}])

RawBrentFrame ==
  RawFrame(RawBrentColumns, RawBrentRows,
           [cols \in RawBrentColumns |-> {"date", "brent_price"}])

RawDollarFrame ==
  RawFrame(RawDollarColumns, RawDollarRows,
           [cols \in RawDollarColumns |-> {"date", "source", "value_sell"}])

RawDollarWideFrame ==
  RawFrame(RawDollarWideColumns, RawDollarWideRows,
           [cols \in RawDollarWideColumns |-> {"date"} \cup dollar_value_cols])

\* the series a raw DataFrame belongs to
Series(f) ==
  IF f.columns \in RawBrentColumns THEN "brent"
  ELSE IF f.columns \in RawDollarColumns \cup RawDollarWideColumns THEN "usd_ars"
  ELSE "fuel"

\* the state after a transform function returned r
Returned(fn, r) ==
  /\ caller' = fn
  /\ error' = r.error
  /\ outcome' = IF r.error.type = "none" THEN "ok" ELSE "raised"
  /\ failedAt' = r.error.at

\* clean_brent_price(raw)
CallCleanBrent ==
  /\ pc = "idle"
  /\ Series(raw) = "brent"
  /\ LET r == clean_brent_price(raw) IN
       clean' = r.frame /\ Returned("clean_brent_price", r)
  /\ pc' = "cleaned"
  /\ UNCHANGED <<dbVars, connVars, traceVars, dagVars, allVars, target, df, truncate,
                 before, repeat, raw, aggregated, df_to_load>>

\* clean_fuel_price(raw)
CallCleanFuel ==
  /\ pc = "idle"
  /\ Series(raw) = "fuel"
  /\ LET r == clean_fuel_price(raw) IN
       clean' = r.frame /\ Returned("clean_fuel_price", r)
  /\ pc' = "cleaned"
  /\ UNCHANGED <<dbVars, connVars, traceVars, dagVars, allVars, target, df, truncate,
                 before, repeat, raw, aggregated, df_to_load>>

\* clean_dollar_price(raw)
CallCleanDollar ==
  /\ pc = "idle"
  /\ Series(raw) = "usd_ars"
  /\ LET r == clean_dollar_price(raw) IN
       clean' = r.frame /\ Returned("clean_dollar_price", r)
  /\ pc' = "cleaned"
  /\ UNCHANGED <<dbVars, connVars, traceVars, dagVars, allVars, target, df, truncate,
                 before, repeat, raw, aggregated, df_to_load>>

\* process_fuel_data_pipeline: fuel_price_aggs(cleaned_df)
CallFuelAggs ==
  /\ pc = "cleaned"
  /\ caller = "clean_fuel_price"
  /\ outcome = "ok"
  /\ LET r == fuel_price_aggs(clean) IN
       aggregated' = r.frame /\ Returned("fuel_price_aggs", r)
  /\ pc' = "aggregated"
  /\ UNCHANGED <<dbVars, connVars, traceVars, dagVars, allVars, target, df, truncate,
                 before, repeat, raw, clean, df_to_load>>

\* process_brent_price_data: agg_brent_price(df_cleaned)
CallAggBrent ==
  /\ pc = "cleaned"
  /\ caller = "clean_brent_price"
  /\ outcome = "ok"
  /\ LET r == agg_brent_price(clean) IN
       aggregated' = r.frame /\ Returned("agg_brent_price", r)
  /\ pc' = "aggregated"
  /\ UNCHANGED <<dbVars, connVars, traceVars, dagVars, allVars, target, df, truncate,
                 before, repeat, raw, clean, df_to_load>>

\* process_dolar_price_data: dollar_price_aggs(df_cleaned), of the wide
\* DataFrame
CallDollarAggs ==
  /\ pc = "cleaned"
  /\ caller = "clean_dollar_price"
  /\ outcome = "ok"
  /\ dollar_value_cols \subseteq clean.columns
  /\ LET r == dollar_price_aggs(clean) IN
       aggregated' = r.frame /\ Returned("dollar_price_aggs", r)
  /\ pc' = "aggregated"
  /\ UNCHANGED <<dbVars, connVars, traceVars, dagVars, allVars, target, df, truncate,
                 before, repeat, raw, clean, df_to_load>>

\* dollar_price_aggs_for_analytics(usd_clean)
CallDollarAggsForAnalytics ==
  /\ pc = "cleaned"
  /\ caller = "clean_dollar_price"
  /\ outcome = "ok"
  /\ LET r == dollar_price_aggs_for_analytics(clean) IN
       aggregated' = r.frame /\ Returned("dollar_price_aggs_for_analytics", r)
  /\ pc' = "aggregated"
  /\ UNCHANGED <<dbVars, connVars, traceVars, dagVars, allVars, target, df, truncate,
                 before, repeat, raw, clean, df_to_load>>

\* load_to_redshift(fuel_analytics, "fuel_prices_monthly", "analytics"), up to
\* the rows it hands to the INSERT; an empty DataFrame is not loaded
CallSelectColumns ==
  /\ pc = "aggregated"
  /\ caller = "fuel_price_aggs"
  /\ outcome = "ok"
  /\ aggregated.rows # << >>
  /\ caller' = "load_to_redshift"
  /\ target' = "analytics_fuel_prices_monthly"
  /\ df_to_load' = select_available_cols("analytics_fuel_prices_monthly", aggregated)
  /\ pc' = "selected"
  /\ UNCHANGED <<dbVars, connVars, traceVars, dagVars, allVars, df, truncate, before,
                 repeat, outcome, failedAt, raw, clean, aggregated, error>>

InitTransform ==
  /\ committed = EmptyDb
  /\ txn = EmptyDb
  /\ target = "analytics_fuel_prices_monthly"
  /\ df = NoDf
  /\ truncate = FALSE
  /\ caller = "none"
  /\ pc = "idle"
  /\ outcome = "none"
  /\ failedAt = "none"
  /\ connOpen = FALSE
  /\ nOpened = 0
  /\ nClosed = 0
  /\ rollbackIssued = FALSE
  /\ issued = {}
  /\ insertedCols = {}
  /\ before = EmptyDb[target]
  /\ repeat = FALSE
  /\ taskState = [t \in Tasks |-> "none"]
  /\ tries = [t \in Tasks |-> 0]
  /\ rsStep = 0
  /\ pgStep = 0
  /\ processed = TRUE
  /\ (RawBrentFrame \/ RawFuelFrame \/ RawDollarFrame \/ RawDollarWideFrame)
  /\ clean = NoFrame
  /\ aggregated = NoFrame
  /\ df_to_load = NoFrame
  /\ error = NoError
  /\ allFn = NoCall
  /\ allStep = 0
  /\ called = << >>
  /\ allOutcome = "none"

NextTransform ==
  \/ CallCleanBrent
  \/ CallCleanFuel
  \/ CallCleanDollar
  \/ CallFuelAggs
  \/ CallAggBrent
  \/ CallDollarAggs
  \/ CallDollarAggsForAnalytics
  \/ CallSelectColumns

SpecTransform == InitTransform /\ [][NextTransform]_vars

\* ------------------------------------------------------------------ claims

IsLoad == caller \in LoadFunctions

\* the rows a complete load unit leaves in its table, given the rows the
\* table held when the unit started
FullLoad(t, b, d, tr) ==
  LET base == IF tr THEN EmptyRows ELSE b IN
  IF t \in PostgresTables THEN InsertedRows(t, base, d.rows)
  ELSE AppendRows(base, d.rows)

\* C1: a load with truncate=true that succeeds twice in succession on the
\* same artifact leaves the table after the second run as it was after the
\* first run.
C1_TruncateLoadTwice ==
  (pc = "done" /\ IsLoad /\ repeat /\ outcome = "ok" /\ truncate)
    => committed[target] = before

C1_Witness ==
  /\ pc = "done" /\ IsLoad /\ repeat /\ outcome = "ok" /\ truncate
  /\ Len(df.rows) = 2
  /\ target = "staging.fuel_prices"

\* C2: a load with truncate=false that succeeds twice on the same artifact
\* leaves the table as one such load left it.
C2_UpsertLoadTwice ==
  (pc = "done" /\ IsLoad /\ repeat /\ outcome = "ok" /\ ~truncate)
    => committed[target] = before

\* the number of rows of table contents b that have key k
RowsWithKey(b, k) ==
  LET RECURSIVE Sum(_)
      Sum(S) == IF S = {} THEN 0
                ELSE LET v == CHOOSE x \in S : TRUE IN b[<<k, v>>] + Sum(S \ {v})
  IN Sum(Vals)

\* C3: with truncate=false every table keeps at most one row per natural
\* key; after a successful load the rows of the incoming keys carry the
\* incoming values and the rows of the other keys are unchanged.
C3_UpsertByNaturalKey ==
  /\ \A t \in Tables \ IdentityKeyTables :
       \A k \in Keys : RowsWithKey(committed[t].rows, k) <= 1
  /\ (pc = "done" /\ IsLoad /\ outcome = "ok" /\ ~truncate
      /\ target \notin IdentityKeyTables)
       => \A r \in Rows :
            IF r[1] \in KeysOfSeq(df.rows)
            THEN committed[target].rows[r] =
                   (IF \E i \in DOMAIN df.rows : df.rows[i] = r THEN 1 ELSE 0)
            ELSE committed[target].rows[r] = before.rows[r]

C6_ConnectionClosedOnce ==
  pc = "done" => (~connOpen /\ nClosed = nOpened)

\* C7: a load of an artifact that lacks a required column fails with the
\* schema error before a connection is opened or a statement is issued, and
\* no INSERT names fewer columns than the table requires.
C7_SchemaErrorBeforeConnect ==
  /\ (IsLoad /\ ~(RequiredCols(target) \subseteq df.columns))
       => /\ nOpened = 0
          /\ issued = {}
          /\ pc = "done" => (outcome = "raised" /\ failedAt = "validate")
  /\ (IsLoad /\ "insert" \in issued) => RequiredCols(target) \subseteq insertedCols

\* C8: after a successful load with truncate=true the table holds exactly
\* the rows of the artifact, also when the artifact is empty.
C8_TruncateReplaces ==
  (pc = "done" /\ IsLoad /\ outcome = "ok" /\ truncate)
    => committed[target].rows = BagOfSeq(df.rows)

\* every task of the run has reached a final state
RunOver == \A t \in Tasks : taskState[t] \in {"success", "failed", "upstream_failed"}

\* C5: when the run has failed, every table of both destinations holds
\* what it held before the run (the data of the last successful run).
C5_FailedRunKeepsData ==
  (RunOver /\ \E t \in Tasks : taskState[t] = "failed") => committed = OldDb

LoadTasks == {"load_postgres", "load_redshift"}

\* the tables and the progress of a load task
TablesOf(l) == IF l = "load_postgres" THEN PostgresTables ELSE RedshiftTables

ProgressOf(l) == IF l = "load_postgres" THEN <<pgStep>> ELSE <<rsStep, pc>>

Sibling(l) == IF l = "load_postgres" THEN "load_redshift" ELSE "load_postgres"

\* C9: a step in which one load task fails changes neither the committed
\* tables nor the state nor the progress of the other load task, and a load
\* task that waits to start (or to be retried) after transform succeeded can
\* start whatever the state of the other load task.
C9_LoadsIndependent ==
  /\ [][\A l \in LoadTasks :
          (taskState[l] = "running" /\ taskState'[l] \in {"up_for_retry", "failed"})
            => /\ \A t \in TablesOf(Sibling(l)) : committed'[t] = committed[t]
               /\ taskState'[Sibling(l)] = taskState[Sibling(l)]
               /\ ProgressOf(Sibling(l))' = ProgressOf(Sibling(l))]_vars
  /\ [](\A l \in LoadTasks :
          (taskState["transform"] = "success"
           /\ taskState[l] \in {"none", "up_for_retry"}) => Runnable(l))
  /\ [](\A l \in LoadTasks :
          taskState["transform"] = "success" => taskState[l] # "upstream_failed")

C9_Witness ==
  /\ taskState["load_postgres"] = "failed"
  /\ taskState["load_redshift"] = "success"
  /\ \A t \in RedshiftTables : committed[t].rows = BagOfSeq(NewRows)
  /\ \A t \in PostgresTables : committed[t] = OldDb[t]

\* the position of a task in the order extract, transform, loads
Stage(t) ==
  CASE t = "extract" -> 1
    [] t = "transform" -> 2
    [] OTHER -> 3

\* C10: a task has started only if every task of an earlier stage has
\* succeeded: transform after extract, the loads after transform, and
\* nothing after a stage that failed.
C10_StagesInOrder ==
  \A t \in Tasks :
    tries[t] > 0 =>
      \A u \in Tasks : Stage(u) < Stage(t) => taskState[u] = "success"

C10_Witness ==
  /\ taskState["extract"] = "success"
  /\ taskState["transform"] = "failed"
  /\ \A l \in LoadTasks : tries[l] = 0 /\ taskState[l] = "upstream_failed"

\* ------------------------------------------------- claims: the cleaners

\* clean_fuel_price has returned or raised
FuelCleaned == pc = "cleaned" /\ caller = "clean_fuel_price"

\* the required columns the raw DataFrame lacks after column normalisation
MissingRequired == fuel_required_cols \ {normalize(c) : c \in raw.columns}

\* the statements of clean_fuel_price that process rows
RowSteps ==
  {"fuel_coerce", "fuel_dropna", "fuel_drop_duplicates", "fuel_sort", "fuel_map",
   "fuel_dropna_producto"}

\* C11: clean_fuel_price on an input that lacks a required column after
\* column normalisation raises the error that names the missing columns,
\* before any statement that coerces, filters, deduplicates or maps rows has
\* run, and returns no artifact.
C11_MissingColumnsRaiseFirst ==
  (FuelCleaned /\ MissingRequired # {})
    => /\ outcome = "raised"
       /\ error.type = "ValueError"
       /\ error.at = "fuel_validate"
       /\ error.missing = MissingRequired
       /\ \A i \in DOMAIN error.after : error.after[i] \notin RowSteps
       /\ clean = NoFrame

C11_Witness ==
  /\ FuelCleaned
  /\ MissingRequired = {"producto"}
  /\ Len(raw.rows) = 2
  /\ outcome = "raised"

\* the 8 standard product names
CanonicalProducts ==
  {"NAFTA GRADO 1", "NAFTA GRADO 2", "NAFTA GRADO 3", "GASOIL GRADO 2",
   "GASOIL GRADO 3", "GNC", "KEROSENE", "GLPA"}

\* C12: every row of the output of clean_fuel_price has a product that is one
\* of the 8 standard names: no null, no raw label, nothing else.
C12_ProductsCanonical ==
  (FuelCleaned /\ outcome = "ok")
    => \A i \in DOMAIN clean.rows : clean.rows[i].producto \in CanonicalProducts

C12_Witness ==
  /\ FuelCleaned /\ outcome = "ok"
  /\ \E i, j \in DOMAIN raw.rows :
       raw.rows[i].producto = "biodiesel" /\ raw.rows[j].producto = "GNC"
  /\ Len(clean.rows) = 1
  /\ clean.rows[1].producto = "GNC"

\* C13: no row of the output of clean_fuel_price has a pump price below 1.0.
C13_PriceFloor ==
  (FuelCleaned /\ outcome = "ok")
    => \A i \in DOMAIN clean.rows :
         clean.rows[i].precio_surtidor >= to_numeric("1.0")

\* C14: every row of the output of clean_fuel_price has a period on or after
\* the configured fuel start date.
C14_PeriodCutoff ==
  (FuelCleaned /\ outcome = "ok")
    => \A i \in DOMAIN clean.rows : clean.rows[i].periodo >= START_DATE_FUEL_PRICE

\* the raw row has a period and a price that parse
Parses(r) == to_datetime_Ym(r.periodo) # NaT /\ to_numeric(r.precio_surtidor) # NaN

\* no rule other than the product mapping removes a row of raw: every period
\* and price parses and no two rows are equal in every column
NoOtherRule ==
  /\ MissingRequired = {}
  /\ \A i \in DOMAIN raw.rows : Parses(raw.rows[i])
  /\ \A i, j \in DOMAIN raw.rows : raw.rows[i] = raw.rows[j] => i = j

\* the lowercased label of the row has no entry in the mapping table
NoEntry(r) == lower(r.producto) \notin DOMAIN PRODUCTO_MAP

\* the lowercased label of the row has no entry, or has the null entry (n/d)
Unmappable(r) == NoEntry(r) \/ PRODUCTO_MAP[lower(r.producto)] = None

\* the rows of raw without entry, the unmappable rows, and the rows labelled
\* GNC in either letter case
RawNoEntry == {i \in DOMAIN raw.rows : NoEntry(raw.rows[i])}

RawUnmappable == {i \in DOMAIN raw.rows : Unmappable(raw.rows[i])}

RawGnc == {i \in DOMAIN raw.rows : raw.rows[i].producto \in {"gnc", "GNC"}}

\* C15 as stated: the rows whose lowercased label has no entry in the mapping
\* table do not reach the output (the output is the output of the input
\* without them); when no other rule removes a row the output has as many
\* rows as the input minus the rows without entry; a label that differs from
\* a key only in letter case is kept.
C15_UnmappedDropCount ==
  (FuelCleaned /\ outcome = "ok")
    => /\ clean.rows = clean_fuel_price(Filter(raw, DOMAIN raw.rows \ RawNoEntry)).frame.rows
       /\ NoOtherRule => Len(clean.rows) = Len(raw.rows) - Cardinality(RawNoEntry)
       /\ NoOtherRule =>
            Cardinality({i \in DOMAIN clean.rows : clean.rows[i].producto = "GNC"})
              = Cardinality(RawGnc)

\* C15 amended: the rows whose lowercased label has no entry, or has the null
\* entry of the label n/d, do not reach the output; when no other rule
\* removes a row the output has as many rows as the input minus exactly those
\* rows; a label that differs from a key only in letter case is kept.
C15_UnmappableDropCount ==
  (FuelCleaned /\ outcome = "ok")
    => /\ clean.rows =
            clean_fuel_price(Filter(raw, DOMAIN raw.rows \ RawUnmappable)).frame.rows
       /\ NoOtherRule => Len(clean.rows) = Len(raw.rows) - Cardinality(RawUnmappable)
       /\ NoOtherRule =>
            Cardinality({i \in DOMAIN clean.rows : clean.rows[i].producto = "GNC"})
              = Cardinality(RawGnc)

C15_Witness ==
  /\ FuelCleaned /\ outcome = "ok"
  /\ NoOtherRule
  /\ Len(raw.rows) = 2
  /\ Cardinality(RawNoEntry) = 1
  /\ Cardinality(RawGnc) = 1
  /\ Len(clean.rows) = 1

\* clean_brent_price / clean_dollar_price has returned or raised
BrentCleaned == pc = "cleaned" /\ caller = "clean_brent_price"

\* clean_dollar_price returned, called with the rows of the two sources
DollarCleaned ==
  pc = "cleaned" /\ caller = "clean_dollar_price" /\ "source" \in raw.columns

\* C16: the output of clean_brent_price has exactly one row per date, is
\* sorted by date ascending, and has no null in date or price.
C16_BrentOneRowPerDateSortedNoNull ==
  (BrentCleaned /\ outcome = "ok")
    => /\ \A i, j \in DOMAIN clean.rows :
            clean.rows[i].date = clean.rows[j].date => i = j
       /\ \A i, j \in DOMAIN clean.rows :
            (i < j /\ clean.rows[i].date # NaT /\ clean.rows[j].date # NaT)
              => clean.rows[i].date < clean.rows[j].date
       /\ \A i \in DOMAIN clean.rows :
            clean.rows[i].date # NaT /\ clean.rows[i].brent_price # NaN

\* the rows of the raw Brent DataFrame without a null
BrentValid == {i \in DOMAIN raw.rows :
                 raw.rows[i].date # None /\ raw.rows[i].brent_price # None}

\* C17: when several raw Brent rows have the same date, the output of
\* clean_brent_price has for that date the price of the last of them in
\* input order.
C17_BrentKeepsLast ==
  (BrentCleaned /\ outcome = "ok")
    => \A n \in DOMAIN clean.rows :
         \E i \in BrentValid :
           /\ to_datetime(raw.rows[i].date) = clean.rows[n].date
           /\ \A j \in BrentValid :
                to_datetime(raw.rows[j].date) = clean.rows[n].date => j <= i
           /\ to_numeric(raw.rows[i].brent_price) = clean.rows[n].brent_price

\* C18: the output of clean_dollar_price has at most one row per
\* (date, source).
C18_DollarDateSourceUnique ==
  (DollarCleaned /\ outcome = "ok")
    => \A i, j \in DOMAIN clean.rows :
         (clean.rows[i].date = clean.rows[j].date
          /\ clean.rows[i].source = clean.rows[j].source) => i = j

\* the raw DataFrame has the columns its cleaner needs
HasRequiredColumns ==
  CASE Series(raw) = "fuel" -> MissingRequired = {}
    [] Series(raw) = "brent" -> TRUE
    [] OTHER -> TRUE

\* C19: a cleaner whose input has the required columns does not raise,
\* whatever the dates and prices of the rows; the rows whose date or price
\* does not parse are not in the output.
C19_UnparsableRowsDropped ==
  (pc = "cleaned" /\ HasRequiredColumns)
    => /\ outcome = "ok"
       /\ DollarCleaned =>
            \A i \in DOMAIN clean.rows : to_numeric(clean.rows[i].value_sell) # NaN
       /\ \A i \in DOMAIN clean.rows :
            IF FuelCleaned
            THEN clean.rows[i].periodo # NaT /\ clean.rows[i].precio_surtidor # NaN
            ELSE clean.rows[i].date # NaT

\* the rows of the clean fuel artifact in the bucket of month p and product q
Bucket(p, q) ==
  Filter(clean, {i \in DOMAIN clean.rows :
                   clean.rows[i].periodo = p /\ clean.rows[i].producto = q}).rows

\* the (month, product) buckets present in the clean fuel artifact
Buckets == {<<clean.rows[i].periodo, clean.rows[i].producto>> : i \in DOMAIN clean.rows}

\* C20: the rows load_to_redshift inserts into analytics_fuel_prices_monthly
\* are exactly one per (month, product) bucket of the clean artifact, with
\* the median of all pump prices and the sum of all volumes of the bucket.
C20_FuelMonthlyBuckets ==
  (pc = "selected")
    => /\ \A i, j \in DOMAIN df_to_load.rows :
            (df_to_load.rows[i].periodo = df_to_load.rows[j].periodo
             /\ df_to_load.rows[i].producto = df_to_load.rows[j].producto) => i = j
       /\ {<<df_to_load.rows[i].periodo, df_to_load.rows[i].producto>> :
             i \in DOMAIN df_to_load.rows} = Buckets
       /\ \A i \in DOMAIN df_to_load.rows :
            LET b == Bucket(df_to_load.rows[i].periodo, df_to_load.rows[i].producto) IN
            /\ df_to_load.rows[i].precio_surtidor_mediana =
                 median([n \in DOMAIN b |-> b[n].precio_surtidor])
            /\ df_to_load.rows[i].volumen_total = sum([n \in DOMAIN b |-> b[n].volumen])


\* ----------------------------------------------- claims: the aggregators

\* (parallel - official) / official * 100, of two monthly means
spread_pct(o, b) ==
  LET g == RatDiv(RatSub(b, o), o) IN Rat(g.num * 100, g.den)

\* an aggregator returned the monthly USD/ARS artifact
DollarAggregated ==
  /\ pc = "aggregated"
  /\ caller \in {"dollar_price_aggs", "dollar_price_aggs_for_analytics"}
  /\ outcome = "ok"

\* C21: in the monthly USD/ARS artifact the spread of every month equals
\* (monthly mean of the parallel rate - monthly mean of the official rate) /
\* monthly mean of the official rate * 100.
C21_SpreadFromMonthlyMeans ==
  DollarAggregated
    => \A i \in DOMAIN aggregated.rows :
         LET r == aggregated.rows[i] IN
         IF caller = "dollar_price_aggs"
         THEN r.usd_ars_oficial # NaNMean
                => RatEq(r.brecha_cambiaria_pct,
                         spread_pct(r.usd_ars_oficial, r.usd_ars_blue))
         ELSE RatEq(r.avg_brecha_cambiaria_pct,
                    spread_pct(r.avg_usd_ars_oficial, r.avg_usd_ars_blue))

\* an aggregator returned a monthly artifact
Aggregated == pc = "aggregated" /\ outcome = "ok"

\* C22: every monthly artifact (Brent, fuel, USD/ARS) labels the bucket of a
\* calendar month with the last calendar day of that month.
C22_BucketLabelIsMonthEnd ==
  Aggregated
    => \A i \in DOMAIN aggregated.rows :
         LET r == aggregated.rows[i] IN
         CASE caller = "fuel_price_aggs" -> r.periodo = MonthEnd(Month(r.periodo))
           [] caller \in {"agg_brent_price", "dollar_price_aggs"} ->
                r.date = MonthEnd(Month(r.date))
           [] OTHER -> TRUE

\* the months in which the clean artifact has a record
CleanMonths == {Month(clean.rows[i].date) : i \in Dated(clean)}

\* C24: agg_brent_price returns a row for a calendar month exactly when the
\* clean artifact has a record in that month, and no returned row has a null,
\* for every clean artifact with at least one row, also when its dates skip
\* whole months.
C24_BrentMonthlyRowsOnlyForMonthsWithData ==
  (Aggregated /\ caller = "agg_brent_price" /\ clean.rows # << >>)
    => /\ {Month(aggregated.rows[i].date) : i \in DOMAIN aggregated.rows} = CleanMonths
       /\ \A i \in DOMAIN aggregated.rows :
            /\ aggregated.rows[i].date # NaT
            /\ aggregated.rows[i].brent_price # NaNMean

\* C26: the output of clean_fuel_price is sorted by period ascending and its
\* row index is exactly 0..n-1, also when rows with unmapped products were
\* dropped.
C26_FuelSortedIndexReset ==
  (FuelCleaned /\ outcome = "ok")
    => /\ \A i, j \in DOMAIN clean.rows :
            i < j => clean.rows[i].periodo <= clean.rows[j].periodo
       /\ clean.index = [i \in DOMAIN clean.rows |-> i - 1]

\* C27: the output of clean_fuel_price has no two rows equal in all columns,
\* also when two input rows differ only in the letter case of a product label.
C27_FuelNoDuplicateRows ==
  (FuelCleaned /\ outcome = "ok")
    => \A i, j \in DOMAIN clean.rows : clean.rows[i] = clean.rows[j] => i = j

\* C30: the sum of volumen_total over the rows of fuel_price_aggs's output
\* equals the sum of volumen over the rows of the clean artifact, also when
\* rows have a null province or flag.
C30_FuelVolumeConserved ==
  (Aggregated /\ caller = "fuel_price_aggs")
    => sum([i \in DOMAIN aggregated.rows |-> aggregated.rows[i].volumen_total])
         = sum([i \in DOMAIN clean.rows |-> clean.rows[i].volumen])

\* --------------------------------------------------- claims: the load stage

ConnectionTests == {"test_connection", "test_redshift_connection"}

\* C23: load_all_data and load_all_data_to_redshift raise ConnectionError
\* when their connectivity test fails, and then no other call was made: no
\* table of the destination was created, dropped, truncated or written.
C23_ConnectionErrorBeforeAnyLoad ==
  \A i \in DOMAIN called :
    (called[i].fn \in ConnectionTests /\ called[i].result = "false")
      => /\ allOutcome = "ConnectionError"
         /\ Len(called) = 1
         /\ committed = OldDb
         /\ txn = OldDb

C23_Witness ==
  /\ allFn.fn = "load_all_data_to_redshift"
  /\ allOutcome = "ConnectionError"
  /\ called[1].result = "false"

\* the loads of load_all_data, in the order the claim gives
StagingLoads ==
  <<"load_brent_to_staging", "load_fuel_to_staging", "load_usd_ars_to_staging">>

AnalyticsLoads ==
  <<"load_brent_to_analytics", "load_fuel_to_analytics",
    "load_usd_ars_to_analytics">>

ExpectedLoads ==
  StagingLoads \o (IF allFn.load_to_analytics THEN AnalyticsLoads ELSE << >>)

\* the loads load_all_data has called after its connectivity test
LoadsCalled == [i \in 1..(Len(called) - 1) |-> called[i + 1].fn]

\* C25: once the connectivity test has passed, load_all_data calls the three
\* staging loads in the order Brent, fuel, USD/ARS, each once, then, only when
\* load_to_analytics is true, the three analytics loads in the same order,
\* each once; a load that raises is the last call it makes.
C25_LoadsOnceInOrder ==
  (allFn.fn = "load_all_data" /\ called # << >> /\ called[1].result = "ok")
    => /\ Len(LoadsCalled) <= Len(ExpectedLoads)
       /\ \A i \in DOMAIN LoadsCalled : LoadsCalled[i] = ExpectedLoads[i]
       /\ allOutcome = "ok" => LoadsCalled = ExpectedLoads
       /\ \A i \in DOMAIN called :
            called[i].result = "raised" => i = Len(called) /\ allOutcome = "raised"

C25_Witness ==
  /\ allFn.fn = "load_all_data"
  /\ allFn.load_to_analytics
  /\ allOutcome = "ok"
  /\ LoadsCalled = StagingLoads \o AnalyticsLoads

\* a load task has read the files of data/processed
HasRead(l) == IF l = "load_postgres" THEN pgStep >= 1 ELSE rsStep >= 1

\* a load task failed at reading the files of data/processed
ReadFailed(l) ==
  /\ taskState[l] \in {"up_for_retry", "failed"}
  /\ ~HasRead(l)

\* C28: after transform has succeeded, every artifact a load stage reads was
\* written by the transform stage of this run, and no load fails because the
\* artifacts it reads are missing.
C28_LoadsReadThisRunsArtifacts ==
  taskState["transform"] = "success"
    => \A l \in LoadTasks :
         /\ HasRead(l) => ProcessedFiles \subseteq TransformWrites
         /\ ~ReadFailed(l)

\* Redshift accepted every statement of the run: load_redshift succeeded at
\* its first attempt (the DAG sends PostgreSQL no statement)
WarehousesAccepted ==
  taskState["load_redshift"] = "success" /\ tries["load_redshift"] = 1

\* C29: when extract and transform succeeded, the artifacts exist and the
\* warehouses accepted every statement, the run ends with both load stages
\* successful.
C29_RunEndsWithBothLoads ==
  (/\ RunOver
   /\ taskState["extract"] = "success"
   /\ taskState["transform"] = "success"
   /\ processed
   /\ WarehousesAccepted)
    => \A l \in LoadTasks : taskState[l] = "success"
====
